---- MODULE Spec2Model ----
(***************************************************************************)
(* Steam sales reporter: the local store (sales facts, sync tasks,         *)
(* sync_meta), the record identity key and the sync run of                 *)
(* src/src-tauri/src, as a state machine.                                  *)
(*                                                                         *)
(* Option<T> is a sequence of length at most one: None is <<>>, Some(v)    *)
(* is <<v>>.  A table is the set of its rows; the primary key is enforced  *)
(* by the statements that write the table, as in SQLite.                   *)
(***************************************************************************)
EXTENDS Integers, Sequences, FiniteSets

VARIABLES
    sales,       \* rows of table sales
    sync_tasks,  \* rows of table sync_tasks
    sync_meta,   \* rows of table sync_meta (key, value)
    run,         \* the fetch_sales_data command in flight, if any
    api_keys,    \* rows of table api_keys (credential metadata)
    vault,       \* the vault: the key file, the key loaded from it and the
                 \* encrypted data file
    del,         \* the delete_api_key command in flight, if any
    schema,      \* the stored schema version, the tables and indexes that
                 \* exist, and the rows of sales written before version 3
    mig,         \* the init_schema call in flight, if any, and its record
    last         \* the step taken last: a completed operation with its arguments
                 \* and result, or the start of a run

vars == <<sales, sync_tasks, sync_meta, run, api_keys, vault, del, schema, mig,
          last>>

\* What the commands on sales, sync_tasks and sync_meta and the sync run leave
\* alone.
others == <<api_keys, vault, del, schema, mig>>

----------------------------------------------------------------------------
(* Bounds of the model *)

MaxUnits == 2       \* measures (units sold) range over 1..MaxUnits
MaxTime == 1        \* now_ms() ranges over 1..MaxTime
MaxWatermark == 2   \* watermarks range over 0..MaxWatermark
MaxCursor == 1      \* max_id of a detail page ranges over 0..MaxCursor

ApiKeyIds == {"A", "B"}
\* Calendar days in ascending order: ISO dates compare as TEXT in that order.
DateSeq == <<"2024-01-01", "2024-01-02", "2024-01-03", "2024-01-04">>
Dates == {DateSeq[1], DateSeq[2]}
DateIndex(d) == CHOOSE i \in 1..Len(DateSeq) : DateSeq[i] = d
DateLeq(a, b) == DateIndex(a) <= DateIndex(b)
Times == 1..MaxTime
Units == 1..MaxUnits
Watermarks == 0..MaxWatermark

----------------------------------------------------------------------------
(* Option and sequence helpers *)

None == <<>>
Some(v) == <<v>>
UnwrapOr(o, d) == IF o = None THEN d ELSE o[1]

Range(s) == {s[i] : i \in 1..Len(s)}

\* No fetch_sales_data command is in flight.
NoRun == [pc |-> "idle"]

\* No delete_api_key command is in flight.
NoDelete == [step |-> 0]

\* The sequences over S of length at most two.
SeqsUpTo2(S) == {<<>>} \cup {<<a>> : a \in S} \cup {<<a, b>> : a \in S, b \in S}

----------------------------------------------------------------------------
(* i64::to_string and str::parse::<i64> *)

Digit(d) ==
    CASE d = 0 -> "0" [] d = 1 -> "1" [] d = 2 -> "2" [] d = 3 -> "3"
      [] d = 4 -> "4" [] d = 5 -> "5" [] d = 6 -> "6" [] d = 7 -> "7"
      [] d = 8 -> "8" [] d = 9 -> "9"

RECURSIVE to_string(_)
to_string(n) ==
    IF n < 0 THEN "-" \o to_string(-n)
    ELSE IF n < 10 THEN Digit(n)
    ELSE to_string(n \div 10) \o Digit(n % 10)

\* The integers whose decimal form the model can meet.
ParseRange == (0 - 1)..(MaxWatermark + MaxCursor + 10)

\* parse(): Some(n) for the decimal form of n, None for anything else.
ParseI64(s) ==
    IF \E n \in ParseRange : to_string(n) = s
    THEN Some(CHOOSE n \in ParseRange : to_string(n) = s)
    ELSE None

----------------------------------------------------------------------------
(* Record identity *)

OptStr(o) == IF o = None THEN "" ELSE o[1]
OptIntStr(o) == IF o = None THEN "" ELSE to_string(o[1])

GenerateKeyWithUnits(record) ==
    record.date \o "|" \o record.line_item_type \o "|" \o
    OptIntStr(record.packageid) \o "|" \o to_string(record.units_sold)

generate_unique_key(record) ==
    OptIntStr(record.partnerid) \o "|" \o
    record.date \o "|" \o
    record.line_item_type \o "|" \o
    OptStr(record.platform) \o "|" \o
    record.country_code \o "|" \o
    OptStr(record.currency) \o "|" \o
    record.api_key_id \o "|" \o
    OptIntStr(record.packageid) \o "|" \o
    OptIntStr(record.bundleid) \o "|" \o
    OptStr(record.package_sale_type) \o "|" \o
    OptIntStr(record.key_request_id) \o "|" \o
    OptStr(record.base_price) \o "|" \o
    OptStr(record.sale_price) \o "|" \o
    OptIntStr(record.appid) \o "|" \o
    OptIntStr(record.game_item_id) \o "|" \o
    OptIntStr(record.combined_discount_id)

\* A line item of a GetDetailedSales page (SteamSaleItem), with the fields the
\* model varies; every other optional field is absent.
SteamSaleItem(date, packageid, net_units_sold) ==
    [date |-> date, line_item_type |-> "Package", partnerid |-> None,
     primary_appid |-> None, packageid |-> packageid, bundleid |-> None,
     appid |-> None, game_item_id |-> None, country_code |-> "US",
     platform |-> None, currency |-> Some("USD"), base_price |-> None,
     sale_price |-> None, package_sale_type |-> None,
     gross_units_sold |-> None, gross_units_activated |-> None,
     net_units_sold |-> net_units_sold, combined_discount_id |-> None,
     key_request_id |-> None]

\* The SalesRecord fetch_sales_for_date builds from a line item, id included.
SalesRecord(item, api_key_id) ==
    LET primary_appid == UnwrapOr(item.primary_appid, UnwrapOr(item.appid, 0))
        units_sold ==
            UnwrapOr(item.net_units_sold,
                     UnwrapOr(item.gross_units_sold,
                              UnwrapOr(item.gross_units_activated, 0)))
        record ==
            [id |-> None, api_key_id |-> api_key_id, date |-> item.date,
             line_item_type |-> item.line_item_type, partnerid |-> item.partnerid,
             primary_appid |-> Some(primary_appid), packageid |-> item.packageid,
             bundleid |-> item.bundleid, appid |-> item.appid,
             game_item_id |-> item.game_item_id, country_code |-> item.country_code,
             platform |-> item.platform, currency |-> item.currency,
             base_price |-> item.base_price, sale_price |-> item.sale_price,
             package_sale_type |-> item.package_sale_type,
             combined_discount_id |-> item.combined_discount_id,
             key_request_id |-> item.key_request_id,
             app_id |-> primary_appid, units_sold |-> units_sold]
    IN  [record EXCEPT !.id = Some(generate_unique_key(record))]

----------------------------------------------------------------------------
(* Table sales *)

\* The row save_sales binds for a record: the columns the model tracks.
SalesRow(record, api_key_id) ==
    [id |-> record.id[1], date |-> record.date, app_id |-> record.app_id,
     package_id |-> UnwrapOr(record.packageid, 0),
     country_code |-> record.country_code, units_sold |-> record.units_sold,
     api_key_id |-> api_key_id]

\* INSERT ... ON CONFLICT(id) DO UPDATE SET <every column> = excluded.<column>
UpsertKeepOld(table, row) ==
    IF \E r \in table : r.id = row.id THEN table ELSE table \cup {row}
Upsert(table, row) == {r \in table : r.id # row.id} \cup {row}

\* The loop of save_sales over the batch, inside the transaction, and the
\* commit.  err_at = 0: the store fails no statement; err_at = k > 0: the store
\* fails statement number k of the call, the executes of the records in their
\* order and then the commit.  n counts the statements executed so far.  sales
\* is the table as the transaction sees it.
RECURSIVE SaveLoop(_, _, _, _, _)
SaveLoop(table, data, api_key_id, err_at, n) ==
    IF data = <<>> THEN [ok |-> err_at # n + 1, sales |-> table]
    ELSE IF Head(data).id = None \/ err_at = n + 1
    THEN [ok |-> FALSE, sales |-> table]
    ELSE SaveLoop(Upsert(table, SalesRow(Head(data), api_key_id)), Tail(data),
                  api_key_id, err_at, n + 1)

\* save_sales that keeps the writes made before the error.
SaveSalesNoRollback(table, data, api_key_id, err_at) ==
    SaveLoop(table, data, api_key_id, err_at, 0)

\* save_sales: the transaction commits only when the loop ended without error;
\* dropped on an error, it rolls back.
save_sales(table, data, api_key_id, err_at) ==
    LET r == SaveLoop(table, data, api_key_id, err_at, 0)
    IN  IF r.ok THEN r ELSE [ok |-> FALSE, sales |-> table]

get_existing_dates(table, api_key_id) ==
    {r.date : r \in {x \in table : x.api_key_id = api_key_id}}

clear_sales_for_date(table, api_key_id, date) ==
    {r \in table : ~(r.api_key_id = api_key_id /\ r.date = date)}

----------------------------------------------------------------------------
(* Table sync_meta: the per-credential watermark *)

HwmKey(api_key_id) == "highwatermark:" \o api_key_id

get_highwatermark(meta, api_key_id) ==
    LET rows == {m \in meta : m.key = HwmKey(api_key_id)}
    IN  IF rows = {} THEN 0
        ELSE UnwrapOr(ParseI64((CHOOSE m \in rows : TRUE).value), 0)

\* INSERT OR REPLACE INTO sync_meta (key, value)
set_highwatermark(meta, api_key_id, value) ==
    {m \in meta : m.key # HwmKey(api_key_id)}
        \cup {[key |-> HwmKey(api_key_id), value |-> to_string(value)]}

\* clear_all_data: every row of sales, every row of api_keys and every
\* watermark row of sync_meta.
IsHwmKey(key) == \E k \in ApiKeyIds : key = HwmKey(k)

clear_all_data(table, keys, meta) ==
    [sales |-> {}, api_keys |-> {},
     sync_meta |-> {m \in meta : ~IsHwmKey(m.key)}]

clear_data_for_key(table, meta, api_key_id) ==
    [sales |-> {r \in table : r.api_key_id # api_key_id},
     sync_meta |-> {m \in meta : m.key # HwmKey(api_key_id)}]

----------------------------------------------------------------------------
(* Credentials: table api_keys and the vault *)

\* The secrets the user enters, as sequences of characters: the empty
\* string, one of three characters with the delimiter of the identity key,
\* one with the characters JSON escapes, one of five characters.
Secrets ==
    {<<>>, <<"a", "|", "b">>, <<"\"", "\\">>, <<"k", "e", "y", "0", "1">>}

\* add_api_key: key_hash is the last four characters of the secret, the whole
\* secret when it has fewer than four.
key_hash(key) ==
    IF Len(key) >= 4 THEN SubSeq(key, Len(key) - 3, Len(key)) ELSE key

\* ApiKeyInfo: the metadata row of a credential.  display_name and created_at
\* do not depend on the secret and are left out.
ApiKeyInfo(id, key) == [id |-> id, key_hash |-> key_hash(key)]

\* INSERT INTO api_keys.
add_api_key_info(keys, info) == keys \cup {info}

\* DELETE FROM api_keys WHERE id = ?.
delete_api_key_info(keys, id) == {a \in keys : a.id # id}

----------------------------------------------------------------------------
(* SecureStorage (secure_storage.rs): the key file, the key loaded from it and
   the encrypted data file *)

\* The 32-byte keys SecureStorage::new can generate.
EncryptionKeys == {1, 2}

\* The data file api-keys.enc does not exist.
NoFile == [exists |-> FALSE]

\* The length of the base64 text encrypt produces, in the model's unit; a
\* file cut to a shorter text has a smaller len, 0 for the empty file.
BlobLen == 2

\* serde_json::to_string of a string: quotes around it, a backslash before
\* every quote and backslash.
RECURSIVE Escape(_)
Escape(str) ==
    IF str = <<>> THEN <<>>
    ELSE IF Head(str) \in {"\"", "\\"}
    THEN <<"\\", Head(str)>> \o Escape(Tail(str))
    ELSE <<Head(str)>> \o Escape(Tail(str))

RECURSIVE Unescape(_)
Unescape(text) ==
    IF text = <<>> THEN <<>>
    ELSE IF Head(text) = "\\" /\ Len(text) >= 2
    THEN <<text[2]>> \o Unescape(Tail(Tail(text)))
    ELSE <<Head(text)>> \o Unescape(Tail(text))

\* serde_json::to_string / from_str of the HashMap<String, String>: one member
\* per entry, its value the quoted string.
to_json(keys) ==
    {[id |-> e.id, text |-> <<"\"">> \o Escape(e.key) \o <<"\"">>] : e \in keys}

from_json(json) ==
    {[id |-> m.id, key |-> Unescape(SubSeq(m.text, 2, Len(m.text) - 1))] :
        m \in json}

\* encrypt: AES-256-GCM under the loaded key with a random nonce,
\* base64(nonce || ciphertext).  The file content remembers the key and the
\* plaintext it was made from, its length and whether it was altered since.
encrypt(plaintext, key) ==
    [exists |-> TRUE, key |-> key, plaintext |-> plaintext, len |-> BlobLen,
     tampered |-> FALSE]

\* decrypt: base64 decoding, the length check and the authenticated
\* decryption succeed only for the whole unaltered text under the same key.
decrypt(file, key) ==
    IF file.len = BlobLen /\ ~file.tampered /\ file.key = key
    THEN [ok |-> TRUE, err |-> "", plaintext |-> file.plaintext]
    ELSE [ok |-> FALSE, err |-> "Decryption", plaintext |-> {}]

\* read_stored_keys: no file or an empty file gives the empty map.
read_stored_keys(v) ==
    IF ~v.data.exists THEN [ok |-> TRUE, err |-> "", keys |-> {}]
    ELSE IF v.data.len = 0 THEN [ok |-> TRUE, err |-> "", keys |-> {}]
    ELSE LET d == decrypt(v.data, v.encryption_key)
         IN  IF d.ok THEN [ok |-> TRUE, err |-> "", keys |-> from_json(d.plaintext)]
             ELSE [ok |-> FALSE, err |-> d.err, keys |-> {}]

write_stored_keys(v, keys) ==
    [v EXCEPT !.data = encrypt(to_json(keys), v.encryption_key)]

\* SecureStorage::get_api_key: Ok(Some(secret)), Ok(None) or the error.
storage_get_api_key(v, id) ==
    LET r == read_stored_keys(v)
    IN  IF ~r.ok THEN [ok |-> FALSE, err |-> r.err, value |-> None]
        ELSE [ok |-> TRUE, err |-> "",
              value |-> IF \E e \in r.keys : e.id = id
                        THEN Some((CHOOSE e \in r.keys : e.id = id).key)
                        ELSE None]

\* SecureStorage::add_api_key: read, insert, write.
StorageAddReplacingAll(v, id, key) ==
    LET r == read_stored_keys(v)
    IN  IF ~r.ok THEN [ok |-> FALSE, vault |-> v]
        ELSE [ok |-> TRUE,
              vault |-> write_stored_keys(v, {[id |-> id, key |-> key]})]

storage_add_api_key(v, id, key) ==
    LET r == read_stored_keys(v)
    IN  IF ~r.ok THEN [ok |-> FALSE, vault |-> v]
        ELSE [ok |-> TRUE,
              vault |-> write_stored_keys(v,
                    {e \in r.keys : e.id # id} \cup {[id |-> id, key |-> key]})]

\* SecureStorage::delete_api_key: read, remove, write.
storage_delete_api_key(v, id) ==
    LET r == read_stored_keys(v)
    IN  IF ~r.ok THEN [ok |-> FALSE, vault |-> v]
        ELSE [ok |-> TRUE,
              vault |-> write_stored_keys(v, {e \in r.keys : e.id # id})]

\* SecureStorage::delete_all_keys removes the data file.
storage_delete_all_keys(v) == [v EXCEPT !.data = NoFile]

\* SecureStorage::new: the key of the key file, or a newly generated key
\* written to the key file when there is none.
SecureStorageNew(v, generated) ==
    IF v.key_file # None THEN [v EXCEPT !.encryption_key = v.key_file[1]]
    ELSE [v EXCEPT !.encryption_key = generated, !.key_file = Some(generated)]

\* The keys SecureStorage::new can end with: a generated key is random and
\* differs from the one in use before.
GeneratedKeys(v) ==
    IF v.key_file # None THEN {v.key_file[1]}
    ELSE EncryptionKeys \ {v.encryption_key}

----------------------------------------------------------------------------
(* Schema migrations (database/migrations.rs) *)

SCHEMA_VERSION == 3

\* A table that does not exist.
NoTable == [shape |-> "none", rows |-> {}]

\* The rows a store of version 1 can hold: integer ids, no credential column.
\* The table's UNIQUE(date, app_id, package_id, country_code) holds.
LegacyRow(n) ==
    [id |-> n, date |-> DateSeq[1], app_id |-> 10, package_id |-> n,
     country_code |-> "US", units_sold |-> 1, api_key_id |-> None]

LegacyRows == {LegacyRow(1), LegacyRow(2)}

\* A row written at version 2 for a credential: the columns of LegacyRow(1)
\* with another credential, which UNIQUE(date, app_id, package_id,
\* country_code, api_key_id) admits next to it.
KeyedRow == [LegacyRow(1) EXCEPT !.id = 3, !.api_key_id = Some("A")]

\* ALTER TABLE sales ADD COLUMN api_key_id TEXT NOT NULL DEFAULT 'legacy'.
AddColumn(r) ==
    IF r.api_key_id = None THEN [r EXCEPT !.api_key_id = Some("legacy")] ELSE r

\* The SELECT of migrate_to_v3: the id becomes
\* date|app_id|package_id|country_code|COALESCE(api_key_id, 'legacy').
V3RowFourColumns(r) ==
    [r EXCEPT !.id = r.date \o "|" \o to_string(r.app_id) \o "|" \o
                     to_string(r.package_id) \o "|" \o r.country_code,
              !.api_key_id = Some(UnwrapOr(r.api_key_id, "legacy"))]

V3Row(r) ==
    [r EXCEPT !.id = r.date \o "|" \o to_string(r.app_id) \o "|" \o
                     to_string(r.package_id) \o "|" \o r.country_code \o "|" \o
                     UnwrapOr(r.api_key_id, "legacy"),
              !.api_key_id = Some(UnwrapOr(r.api_key_id, "legacy"))]

StandardIndexes == {"idx_sales_date", "idx_sales_app_id", "idx_sales_country"}

KeyIndex == {"idx_sales_api_key_id"}

\* The store a completed migration to version v leaves, holding the given
\* version-1 rows.
StoredSchema(v, rows) ==
    [version |-> v,
     sync_meta |-> v >= 1,
     api_keys |-> v >= 2,
     sales |-> CASE v = 0 -> NoTable
                 [] v = 1 -> [shape |-> "v1", rows |-> rows]
                 [] v = 2 -> [shape |-> "v2",
                              rows |-> {AddColumn(r) : r \in rows}]
                 [] v = 3 -> [shape |-> "v3",
                              rows |-> {V3Row(AddColumn(r)) : r \in rows}],
     sales_new |-> NoTable,
     sales_v3 |-> NoTable,
     indexes |-> CASE v = 0 -> {}
                   [] v = 1 -> StandardIndexes
                   [] v \in {2, 3} -> StandardIndexes \cup KeyIndex]

\* The tables of a store: those the CREATE TABLE and RENAME statements of
\* init_schema and the migration steps have left in it.
Tables(s) ==
    {t \in {"sync_meta", "api_keys"} : s[t]}
        \cup {t \in {"sales", "sales_new", "sales_v3"} : s[t].shape # "none"}

\* get_schema_version: the stored value, 0 without a row.
GetSchemaVersionZero(s) == 0

get_schema_version(s) == s.version

\* column_exists(db, "sales", "api_key_id"): PRAGMA table_info lists nothing
\* for a table that does not exist.
column_exists(s) == s.sales.shape \in {"v1k", "v2", "v3"}

\* init_schema: the migration steps it runs for the version it read.
MigrationStepsFirstOnly(current_version) ==
    IF current_version < 1 THEN <<1>>
    ELSE IF current_version < 2 THEN <<2>>
    ELSE IF current_version < 3 THEN <<3>>
    ELSE <<>>

MigrationSteps(current_version) ==
    (IF current_version < 1 THEN <<1>> ELSE <<>>)
        \o (IF current_version < 2 THEN <<2>> ELSE <<>>)
        \o (IF current_version < 3 THEN <<3>> ELSE <<>>)

\* The statements of migrate_to_v1, migrate_to_v2 and migrate_to_v3 in their
\* order; create_standard_indexes counts as one.
StepStatements(n) ==
    CASE n = 1 -> <<"v1_create", "v1_indexes", "v1_version">>
      [] n = 2 -> <<"v2_api_keys", "v2_check", "v2_alter", "v2_create",
                    "v2_copy", "v2_drop", "v2_rename", "v2_indexes",
                    "v2_key_index", "v2_version">>
      [] n = 3 -> <<"v3_create", "v3_copy", "v3_drop", "v3_rename",
                    "v3_indexes", "v3_key_index", "v3_version">>

\* The statements of migrate_to_v2 inside `if !has_api_key_id`.
GuardedStatements ==
    {"v2_alter", "v2_create", "v2_copy", "v2_drop", "v2_rename", "v2_indexes",
     "v2_key_index"}

\* The migration step a statement belongs to, and whether it is its first.
StepOf(stmt) == CHOOSE n \in 1..3 : \E i \in DOMAIN StepStatements(n) :
                                        StepStatements(n)[i] = stmt

IsFirstOf(stmt) == StepStatements(StepOf(stmt))[1] = stmt

RECURSIVE Flatten(_)
Flatten(steps) ==
    IF steps = <<>> THEN <<>>
    ELSE StepStatements(Head(steps)) \o Flatten(Tail(steps))

\* Whether SQLite rejects INSERT INTO target SELECT ... for the rows selected:
\* two rows of the target would share the PRIMARY KEY.
PrimaryKeyConflict(target, selected) ==
    \/ \E a \in selected : \E b \in target : a.id = b.id
    \/ \E a \in selected : \E b \in selected : a.id = b.id /\ a # b

\* One statement on the store: whether it succeeds and the store after it.
Execute(stmt, s) ==
    CASE stmt = "sync_meta" ->
            [ok |-> TRUE, schema |-> [s EXCEPT !.sync_meta = TRUE]]
      [] stmt = "v1_create" ->
            [ok |-> TRUE,
             schema |-> IF s.sales.shape = "none"
                        THEN [s EXCEPT !.sales = [shape |-> "v1", rows |-> {}]]
                        ELSE s]
      [] stmt \in {"v1_indexes", "v2_indexes", "v3_indexes"} ->
            IF s.sales.shape = "none" THEN [ok |-> FALSE, schema |-> s]
            ELSE [ok |-> TRUE,
                  schema |-> [s EXCEPT !.indexes = @ \cup StandardIndexes]]
      [] stmt \in {"v2_key_index", "v3_key_index"} ->
            IF s.sales.shape \in {"none", "v1"} THEN [ok |-> FALSE, schema |-> s]
            ELSE [ok |-> TRUE,
                  schema |-> [s EXCEPT !.indexes = @ \cup KeyIndex]]
      [] stmt \in {"v1_version", "v2_version", "v3_version"} ->
            [ok |-> TRUE, schema |-> [s EXCEPT !.version = StepOf(stmt)]]
      [] stmt = "v2_api_keys" ->
            [ok |-> TRUE, schema |-> [s EXCEPT !.api_keys = TRUE]]
      [] stmt = "v2_check" -> [ok |-> TRUE, schema |-> s]
      [] stmt = "v2_alter" ->
            IF s.sales.shape # "v1" THEN [ok |-> FALSE, schema |-> s]
            ELSE [ok |-> TRUE,
                  schema |-> [s EXCEPT !.sales =
                        [shape |-> "v1k",
                         rows |-> {AddColumn(r) : r \in s.sales.rows}]]]
      [] stmt = "v2_create" ->
            [ok |-> TRUE,
             schema |-> IF s.sales_new.shape = "none"
                        THEN [s EXCEPT !.sales_new = [shape |-> "v2", rows |-> {}]]
                        ELSE s]
      [] stmt = "v2_copy" ->
            IF \/ s.sales.shape \in {"none", "v1"}
               \/ PrimaryKeyConflict(s.sales_new.rows, s.sales.rows)
            THEN [ok |-> FALSE, schema |-> s]
            ELSE [ok |-> TRUE,
                  schema |-> [s EXCEPT !.sales_new.rows = @ \cup s.sales.rows]]
      [] stmt = "v3_create" ->
            [ok |-> TRUE,
             schema |-> IF s.sales_v3.shape = "none"
                        THEN [s EXCEPT !.sales_v3 = [shape |-> "v3", rows |-> {}]]
                        ELSE s]
      [] stmt = "v3_copy" ->
            IF \/ s.sales.shape \in {"none", "v1"}
               \/ PrimaryKeyConflict(s.sales_v3.rows,
                                     {V3Row(r) : r \in s.sales.rows})
            THEN [ok |-> FALSE, schema |-> s]
            ELSE [ok |-> TRUE,
                  schema |-> [s EXCEPT !.sales_v3.rows =
                                    @ \cup {V3Row(r) : r \in s.sales.rows}]]
      [] stmt \in {"v2_drop", "v3_drop"} ->
            IF s.sales.shape = "none" THEN [ok |-> FALSE, schema |-> s]
            ELSE [ok |-> TRUE,
                  schema |-> [s EXCEPT !.sales = NoTable, !.indexes = {}]]
      [] stmt = "v2_rename" ->
            IF s.sales_new.shape = "none" \/ s.sales.shape # "none"
            THEN [ok |-> FALSE, schema |-> s]
            ELSE [ok |-> TRUE,
                  schema |-> [s EXCEPT !.sales = s.sales_new,
                                       !.sales_new = NoTable]]
      [] stmt = "v3_rename" ->
            IF s.sales_v3.shape = "none" \/ s.sales.shape # "none"
            THEN [ok |-> FALSE, schema |-> s]
            ELSE [ok |-> TRUE,
                  schema |-> [s EXCEPT !.sales = s.sales_v3,
                                       !.sales_v3 = NoTable]]

\* No init_schema call is in flight.  from is the version the store had at
\* first; calls counts the calls so far (2 stands for two or more); clean
\* says that no statement has failed and no call was interrupted; first is
\* the store the first call returned with; pre, executed and ok describe the
\* latest call: the store it found, the migration steps it ran, its result.
\* origin is the store as it was at first; faults says that the store has
\* failed a statement (I/O error); stopped says that the latest call was
\* interrupted.
NoMigration(v) ==
    [pc |-> "idle", from |-> v, calls |-> 0, clean |-> TRUE, first |-> None,
     pre |-> None, executed |-> <<>>, ok |-> TRUE, todo |-> <<>>,
     origin |-> None, faults |-> FALSE, stopped |-> FALSE]

----------------------------------------------------------------------------
(* Table sync_tasks *)

create_task_id(api_key_id, date) == api_key_id \o "|" \o date

\* The unique key of table sync_tasks: the task id, one per (credential, date).
SyncTaskKey(t) == t.id

InsertOrIgnoreTask(tasks, api_key_id, date, now) ==
    IF \E t \in tasks : SyncTaskKey(t) = create_task_id(api_key_id, date) THEN tasks
    ELSE tasks \cup {[id |-> create_task_id(api_key_id, date),
                      api_key_id |-> api_key_id, date |-> date,
                      status |-> "todo", created_at |-> now,
                      completed_at |-> None]}

\* INSERT OR REPLACE INTO sync_tasks ... VALUES (?, ?, ?, 'todo', ?, NULL)
InsertOrReplaceTask(tasks, api_key_id, date, now) ==
    {t \in tasks : SyncTaskKey(t) # create_task_id(api_key_id, date)}
        \cup {[id |-> create_task_id(api_key_id, date),
               api_key_id |-> api_key_id, date |-> date, status |-> "todo",
               created_at |-> now, completed_at |-> None]}

\* create_sync_tasks: two autocommit statements per date, in the order of
\* dates.  err_at = 0: no statement fails; err_at = k > 0: statement number k
\* of the call fails, the call returns the error and the statements before it
\* stay committed.  n counts the statements executed so far.
RECURSIVE CreateLoop(_, _, _, _, _, _, _)
CreateLoop(table, tasks, api_key_id, dates, now, err_at, n) ==
    IF dates = <<>> THEN [ok |-> TRUE, sales |-> table, sync_tasks |-> tasks]
    ELSE IF err_at = n + 1
    THEN [ok |-> FALSE, sales |-> table, sync_tasks |-> tasks]
    ELSE LET deleted == clear_sales_for_date(table, api_key_id, Head(dates))
         IN  IF err_at = n + 2
             THEN [ok |-> FALSE, sales |-> deleted, sync_tasks |-> tasks]
             ELSE CreateLoop(deleted,
                             InsertOrReplaceTask(tasks, api_key_id, Head(dates), now),
                             api_key_id, Tail(dates), now, err_at, n + 2)

create_sync_tasks(table, tasks, api_key_id, dates, now, err_at) ==
    CreateLoop(table, tasks, api_key_id, dates, now, err_at, 0)

IsPending(t) == t.status \in {"todo", "in_progress"}

\* Whether the sequence s lists the rows of set S, each once, by ascending date.
IsSortedListing(s, S) ==
    /\ Len(s) = Cardinality(S)
    /\ Range(s) = S
    /\ \A i \in 1..Len(s) : \A j \in i..Len(s) : DateLeq(s[i].date, s[j].date)

\* get_pending_tasks: the results a call can return (rows of equal date come in
\* an order SQLite chooses).
get_pending_tasks(tasks) ==
    LET S == {t \in tasks : IsPending(t)}
        n == Cardinality(S)
    IN  {s \in [1..n -> S] : IsSortedListing(s, S)}

get_pending_tasks_for_key(tasks, api_key_id) ==
    get_pending_tasks({t \in tasks : t.api_key_id = api_key_id})

\* UPDATE sync_tasks SET status = 'in_progress' WHERE id = ?
mark_task_in_progress(tasks, task_id) ==
    {IF t.id = task_id THEN [t EXCEPT !.status = "in_progress"] ELSE t : t \in tasks}

\* UPDATE sync_tasks SET status = 'done', completed_at = ? WHERE id = ?
mark_task_done(tasks, task_id, now) ==
    {IF t.id = task_id
     THEN [t EXCEPT !.status = "done", !.completed_at = Some(now)]
     ELSE t : t \in tasks}

\* UPDATE sync_tasks SET status = 'todo' WHERE status = 'in_progress'; the
\* result is the number of rows changed.
ResetAllTasks(tasks) ==
    [sync_tasks |-> {[t EXCEPT !.status = "todo"] : t \in tasks},
     count |-> Cardinality({t \in tasks : t.status = "in_progress"})]
reset_in_progress_tasks(tasks) ==
    [sync_tasks |->
        {IF t.status = "in_progress" THEN [t EXCEPT !.status = "todo"] ELSE t :
            t \in tasks},
     count |-> Cardinality({t \in tasks : t.status = "in_progress"})]

clear_completed_tasks(tasks) == {t \in tasks : t.status # "done"}

delete_sync_tasks_for_key(tasks, api_key_id) ==
    {t \in tasks : t.api_key_id # api_key_id}

----------------------------------------------------------------------------
(* The operation that completed last *)

\* pre_rows and pre_status record what the operation found: the number of rows
\* of sales, and the statuses of the tasks it addressed.
\* For a save_sales call: failed is the statement the store failed (0: none).
\* For a fetch_sales_data run: dates are the sorted changed dates, fetched the
\* records each completed detail fetch returned (in the order of dates), failed
\* the position in dates of the detail fetch that failed (0: none) and ret the
\* new_highwatermark of the result and result_highwatermark what the discovery
\* response carried.  new_highwatermark is the FetchResult field the caller
\* receives: Some(value) with Ok, None with Err.
Last(op, api_key_id, ok) ==
    [op |-> op, api_key_id |-> api_key_id, ok |-> ok, dates |-> <<>>,
     data |-> <<>>, task_id |-> "", ret |-> 0,
     pre_rows |-> Cardinality(sales), pre_status |-> {},
     fetched |-> <<>>, failed |-> 0,
     result_highwatermark |-> [kind |-> "None"], new_highwatermark |-> <<>>]

\* The store and the vault are empty and no command is in flight.
InitData ==
    /\ sales = {}
    /\ sync_tasks = {}
    /\ sync_meta = {}
    /\ run = NoRun
    /\ api_keys = {}
    /\ vault = [data |-> NoFile, key_file |-> Some(1), encryption_key |-> 1]
    /\ del = NoDelete
    /\ last = Last("init", "", TRUE)

\* Database::new has run init_schema on a file that did not exist.
Init ==
    /\ InitData
    /\ schema = StoredSchema(SCHEMA_VERSION, {})
    /\ mig = NoMigration(SCHEMA_VERSION)

----------------------------------------------------------------------------
(* Commands on the store (commands.rs): each takes the database lock, calls
   the Database method and returns its result. *)

SaveSalesData(data, api_key_id, err_at) ==
    LET r == save_sales(sales, data, api_key_id, err_at)
    IN  /\ sales' = r.sales
        /\ last' = [Last("save_sales", api_key_id, r.ok) EXCEPT
                        !.data = data, !.failed = err_at]
        /\ UNCHANGED <<sync_tasks, sync_meta, run, others>>

ClearSalesForDate(api_key_id, date) ==
    /\ sales' = clear_sales_for_date(sales, api_key_id, date)
    /\ last' = [Last("clear_sales_for_date", api_key_id, TRUE) EXCEPT
                    !.dates = <<date>>]
    /\ UNCHANGED <<sync_tasks, sync_meta, run, others>>

ClearDataForKey(api_key_id) ==
    LET r == clear_data_for_key(sales, sync_meta, api_key_id)
    IN  /\ sales' = r.sales
        /\ sync_meta' = r.sync_meta
        /\ last' = Last("clear_data_for_key", api_key_id, TRUE)
        /\ UNCHANGED <<sync_tasks, run, others>>

\* clear_all_data: three statements on the store, then the data file of the
\* vault is removed; err_at is the step that fails (0: none), the command
\* returning the error and skipping the rest.
ClearAllData(err_at) ==
    LET r == clear_all_data(sales, api_keys, sync_meta)
    IN  /\ sales' = IF err_at = 1 THEN sales ELSE r.sales
        /\ api_keys' = IF err_at \in 1..2 THEN api_keys ELSE r.api_keys
        /\ sync_meta' = IF err_at \in 1..3 THEN sync_meta ELSE r.sync_meta
        /\ vault' = IF err_at = 0 THEN storage_delete_all_keys(vault) ELSE vault
        /\ last' = Last("clear_all_data", "", err_at = 0)
        /\ UNCHANGED <<sync_tasks, run, del, schema, mig>>

SetHighwatermark(api_key_id, value) ==
    /\ sync_meta' = set_highwatermark(sync_meta, api_key_id, value)
    /\ last' = [Last("set_highwatermark", api_key_id, TRUE) EXCEPT !.ret = value]
    /\ UNCHANGED <<sales, sync_tasks, run, others>>

CreateSyncTasks(api_key_id, dates, now, err_at) ==
    LET r == create_sync_tasks(sales, sync_tasks, api_key_id, dates, now, err_at)
    IN  /\ sales' = r.sales
        /\ sync_tasks' = r.sync_tasks
        /\ last' = [Last("create_sync_tasks", api_key_id, r.ok) EXCEPT
                        !.dates = dates,
                        !.pre_status =
                            {t.status : t \in {x \in sync_tasks :
                                x.api_key_id = api_key_id /\ x.date \in Range(dates)}}]
        /\ UNCHANGED <<sync_meta, run, others>>

MarkTaskInProgress(task_id) ==
    /\ sync_tasks' = mark_task_in_progress(sync_tasks, task_id)
    /\ last' = [Last("mark_task_in_progress", "", TRUE) EXCEPT !.task_id = task_id]
    /\ UNCHANGED <<sales, sync_meta, run, others>>

MarkTaskDone(task_id, now) ==
    /\ sync_tasks' = mark_task_done(sync_tasks, task_id, now)
    /\ last' = [Last("mark_task_done", "", TRUE) EXCEPT
                    !.task_id = task_id,
                    !.pre_status = {t.status : t \in {x \in sync_tasks : x.id = task_id}}]
    /\ UNCHANGED <<sales, sync_meta, run, others>>

ResetInProgressTasks ==
    LET r == reset_in_progress_tasks(sync_tasks)
    IN  /\ sync_tasks' = r.sync_tasks
        /\ last' = [Last("reset_in_progress_tasks", "", TRUE) EXCEPT
                        !.ret = r.count,
                        !.pre_status = {t.status : t \in sync_tasks}]
        /\ UNCHANGED <<sales, sync_meta, run, others>>

ClearCompletedTasks ==
    /\ sync_tasks' = clear_completed_tasks(sync_tasks)
    /\ last' = Last("clear_completed_tasks", "", TRUE)
    /\ UNCHANGED <<sales, sync_meta, run, others>>

DeleteSyncTasksForKey(api_key_id) ==
    /\ sync_tasks' = delete_sync_tasks_for_key(sync_tasks, api_key_id)
    /\ last' = Last("delete_sync_tasks_for_key", api_key_id, TRUE)
    /\ UNCHANGED <<sales, sync_meta, run, others>>

----------------------------------------------------------------------------
(* Credential commands *)

\* The id add_api_key generates is a fresh UUID: no row of any store names it.
FreshId(id) ==
    /\ \A r \in sales : r.api_key_id # id
    /\ \A t \in sync_tasks : t.api_key_id # id
    /\ \A m \in sync_meta : m.key # HwmKey(id)
    /\ \A a \in api_keys : a.id # id
    /\ storage_get_api_key(vault, id).value = None

\* add_api_key with the metadata row written before the secret.
AddApiKeyInfoFirst(id, key, err_at) ==
    /\ FreshId(id)
    /\ LET r == storage_add_api_key(vault, id, key)
       IN  /\ api_keys' = IF err_at # 1
                          THEN add_api_key_info(api_keys, ApiKeyInfo(id, key))
                          ELSE api_keys
           /\ vault' = IF err_at = 0 /\ r.ok THEN r.vault ELSE vault
           /\ last' = [Last("add_api_key", id, err_at = 0 /\ r.ok) EXCEPT
                           !.data = <<key>>]
    /\ UNCHANGED <<sales, sync_tasks, sync_meta, run, del, schema, mig>>

\* add_api_key: the secret goes to the vault, then the metadata row to the
\* store; err_at is the step that fails (0: none).
AddApiKey(id, key, err_at) ==
    /\ FreshId(id)
    /\ LET r == storage_add_api_key(vault, id, key)
           stored == err_at # 1 /\ r.ok
       IN  /\ vault' = IF stored THEN r.vault ELSE vault
           /\ api_keys' = IF stored /\ err_at # 2
                          THEN add_api_key_info(api_keys, ApiKeyInfo(id, key))
                          ELSE api_keys
           /\ last' = [Last("add_api_key", id, stored /\ err_at # 2) EXCEPT
                           !.data = <<key>>]
    /\ UNCHANGED <<sales, sync_tasks, sync_meta, run, del, schema, mig>>

\* get_api_key returns the result of SecureStorage::get_api_key.
GetApiKey(id) ==
    /\ last' = Last("get_api_key", id, storage_get_api_key(vault, id).ok)
    /\ UNCHANGED <<sales, sync_tasks, sync_meta, run, api_keys, vault, del,
                   schema, mig>>

\* What happens to the files of the vault outside the program: the data file
\* is altered, it is cut to a shorter length, the key file is lost.
TamperDataFile ==
    /\ vault.data.exists
    /\ vault.data.len > 0
    /\ vault' = [vault EXCEPT !.data.tampered = TRUE]
    /\ last' = Last("tamper", "", TRUE)
    /\ UNCHANGED <<sales, sync_tasks, sync_meta, run, api_keys, del, schema, mig>>

TruncateDataFile(len) ==
    /\ vault.data.exists
    /\ len < vault.data.len
    /\ vault' = [vault EXCEPT !.data.len = len]
    /\ last' = Last("truncate", "", TRUE)
    /\ UNCHANGED <<sales, sync_tasks, sync_meta, run, api_keys, del, schema, mig>>

LoseKeyFile ==
    /\ vault.key_file # None
    /\ vault' = [vault EXCEPT !.key_file = None]
    /\ last' = Last("lose_key_file", "", TRUE)
    /\ UNCHANGED <<sales, sync_tasks, sync_meta, run, api_keys, del, schema, mig>>

\* delete_api_key removes, one statement after the other: the facts and the
\* watermark (clear_data_for_key), the metadata row (delete_api_key_info),
\* the secret (SecureStorage::delete_api_key).
DeleteOrderVaultFirst == <<"vault", "sales", "sync_meta", "api_keys">>

DeleteOrder == <<"sales", "sync_meta", "api_keys", "vault">>

\* delete_api_key is called: nothing is removed yet.  had_secret records
\* whether the vault held the secret at that moment.
DeleteBegin(id) ==
    /\ del = NoDelete
    /\ del' = [step |-> 1, id |-> id,
               had_secret |-> storage_get_api_key(vault, id).value # None]
    /\ last' = Last("delete_begin", id, TRUE)
    /\ UNCHANGED <<sales, sync_tasks, sync_meta, run, api_keys, vault>>
    /\ UNCHANGED <<schema, mig>>

\* The next statement of delete_api_key: it fails (the command returns the
\* error and the rest is skipped) or it removes its rows.  passes = FALSE:
\* the store or the file system fails the statement; the removal of the
\* secret also fails when the data file cannot be read.
DeleteStep(passes) ==
    /\ del # NoDelete
    /\ LET target == DeleteOrder[del.step]
           done == del.step = Len(DeleteOrder)
           removed == storage_delete_api_key(vault, del.id)
           ok == passes /\ (target = "vault" => removed.ok)
       IN  /\ sales' = IF ok /\ target = "sales"
                        THEN clear_data_for_key(sales, sync_meta, del.id).sales
                        ELSE sales
           /\ sync_meta' = IF ok /\ target = "sync_meta"
                            THEN clear_data_for_key(sales, sync_meta, del.id).sync_meta
                            ELSE sync_meta
           /\ api_keys' = IF ok /\ target = "api_keys"
                           THEN delete_api_key_info(api_keys, del.id)
                           ELSE api_keys
           /\ vault' = IF ok /\ target = "vault"
                        THEN removed.vault ELSE vault
           /\ del' = IF ok /\ ~done THEN [del EXCEPT !.step = @ + 1]
                      ELSE NoDelete
           /\ IF ok /\ ~done THEN UNCHANGED last
              ELSE last' = Last("delete_api_key", del.id, ok)
    /\ UNCHANGED <<sync_tasks, run, schema, mig>>

----------------------------------------------------------------------------
(* init_schema, statement by statement *)

\* init_schema is called (by Database::new, and again by
\* initialize_and_cleanup): it reads the stored version once; the statements
\* it will execute are CREATE TABLE IF NOT EXISTS sync_meta and those of the
\* migration steps chosen for that version.
InitSchemaBegin ==
    /\ mig.pc = "idle"
    /\ mig' = [mig EXCEPT
                !.pc = "run",
                !.calls = IF @ < 2 THEN @ + 1 ELSE @,
                !.pre = Some(schema),
                !.executed = <<>>,
                !.stopped = FALSE,
                !.todo = <<"sync_meta">>
                            \o Flatten(MigrationSteps(get_schema_version(schema)))]
    /\ UNCHANGED <<sales, sync_tasks, sync_meta, run, api_keys, vault, del,
                   schema, last>>

\* What is left to execute after a statement: migrate_to_v2 skips the
\* statements inside `if !has_api_key_id` when the column exists.
Remaining(stmt, s, rest) ==
    IF stmt = "v2_check" /\ column_exists(s)
    THEN SelectSeq(rest, LAMBDA x : x \notin GuardedStatements)
    ELSE rest

\* The next statement of init_schema.  ok = FALSE: the store fails it (I/O
\* error, disk full).  A statement that fails makes init_schema return the
\* error, except the write of the version, whose error set_schema_version
\* drops.  After the last statement init_schema returns Ok.
MigrateStep(ok) ==
    /\ mig.pc = "run"
    /\ LET stmt == Head(mig.todo)
           r == Execute(stmt, schema)
           is_version == stmt \in {"v1_version", "v2_version", "v3_version"}
           succeeds == ok /\ r.ok
           continues == succeeds \/ is_version
           rest == Remaining(stmt, schema, Tail(mig.todo))
           executed == IF stmt # "sync_meta" /\ IsFirstOf(stmt)
                       THEN Append(mig.executed, StepOf(stmt))
                       ELSE mig.executed
       IN  /\ schema' = IF succeeds THEN r.schema ELSE schema
           /\ mig' = [mig EXCEPT
                        !.pc = IF continues /\ rest # <<>> THEN "run" ELSE "idle",
                        !.todo = IF continues THEN rest ELSE <<>>,
                        !.executed = executed,
                        !.clean = @ /\ succeeds,
                        !.faults = @ \/ ~ok,
                        !.ok = continues,
                        !.first = IF continues /\ rest = <<>> /\ mig.calls = 1
                                  THEN Some(schema') ELSE @]
    /\ UNCHANGED <<sales, sync_tasks, sync_meta, run, api_keys, vault, del,
                   last>>

\* The program stops between two statements of init_schema.
MigrationInterrupted ==
    /\ mig.pc = "run"
    /\ mig' = [mig EXCEPT !.pc = "idle", !.todo = <<>>, !.clean = FALSE,
                          !.ok = FALSE, !.stopped = TRUE]
    /\ UNCHANGED <<sales, sync_tasks, sync_meta, run, api_keys, vault, del,
                   schema, last>>

----------------------------------------------------------------------------
(* Startup (lib.rs run): Database::new and initialize_and_cleanup on a store
   at the current schema version.  A process that is killed and started again
   loses the run in flight and keeps the store. *)

\* cleanup_duplicate_ids: of the rows sharing an id, the one of lowest rowid
\* stays.  The model keeps no rowid: keep is the set of rows that stay.
IsIdCleanup(table, keep) ==
    /\ keep \subseteq table
    /\ \A r \in table : Cardinality({x \in keep : x.id = r.id}) = 1

LogicalKey(r) == <<r.date, r.app_id, r.package_id, r.country_code, r.api_key_id>>

\* cleanup_duplicate_logical_records: of the rows sharing (date, app_id,
\* package_id, country_code, api_key_id), the one of lowest rowid stays.
IsLogicalCleanup(table, keep) ==
    /\ keep \subseteq table
    /\ \A r \in table :
            Cardinality({x \in keep : LogicalKey(x) = LogicalKey(r)}) = 1

Startup ==
    /\ \E keep1 \in SUBSET sales : \E keep2 \in SUBSET keep1 :
            /\ IsIdCleanup(sales, keep1)
            /\ IsLogicalCleanup(keep1, keep2)
            /\ sales' = keep2
    /\ run' = NoRun
    /\ del' = NoDelete
    /\ last' = [Last("startup", "", TRUE) EXCEPT
                    !.pre_status = {t.status : t \in sync_tasks}]
    /\ \E generated \in GeneratedKeys(vault) :
            vault' = SecureStorageNew(vault, generated)
    /\ UNCHANGED <<sync_tasks, sync_meta, api_keys, schema, mig>>

----------------------------------------------------------------------------
(* The sync run: the fetch_sales_data command and SteamApi::fetch_sales_data *)

PARALLEL_BATCH_SIZE == 3

\* result_highwatermark of a discovery response: absent, a JSON string, a JSON
\* number (is_i64: whether as_i64 yields it) or another JSON value.
NoWatermark == [kind |-> "None"]
StringWatermark(str) == [kind |-> "String", s |-> str]
NumberWatermark(n, is_i64) == [kind |-> "Number", n |-> n, is_i64 |-> is_i64]

\* NewHighwatermark with 0 in place of the stored watermark.
NewHighwatermarkOrZero(result_highwatermark, stored_highwatermark) ==
    CASE result_highwatermark.kind = "String" ->
            UnwrapOr(ParseI64(result_highwatermark.s), 0)
      [] result_highwatermark.kind = "Number" ->
            IF result_highwatermark.is_i64 THEN result_highwatermark.n ELSE 0
      [] OTHER -> 0

\* NewHighwatermark without the arm for a watermark sent as a JSON string.
NewHighwatermarkNumbersOnly(result_highwatermark, stored_highwatermark) ==
    IF result_highwatermark.kind = "Number" /\ result_highwatermark.is_i64
    THEN result_highwatermark.n
    ELSE stored_highwatermark

NewHighwatermark(result_highwatermark, stored_highwatermark) ==
    CASE result_highwatermark.kind = "String" ->
            UnwrapOr(ParseI64(result_highwatermark.s), stored_highwatermark)
      [] result_highwatermark.kind = "Number" ->
            IF result_highwatermark.is_i64 THEN result_highwatermark.n
            ELSE stored_highwatermark
      [] OTHER -> stored_highwatermark

\* The comparator of sorted_dates.sort_by: a date absent from existing_dates
\* comes before a date present in it; otherwise the dates compare as strings.
DateBefore(a, b, existing_dates) ==
    IF (a \in existing_dates) # (b \in existing_dates)
    THEN b \in existing_dates
    ELSE DateIndex(a) < DateIndex(b)

RECURSIVE InsertSorted(_, _, _)
InsertSorted(s, d, existing_dates) ==
    IF s = <<>> THEN <<d>>
    ELSE IF DateBefore(d, Head(s), existing_dates) THEN <<d>> \o s
    ELSE <<Head(s)>> \o InsertSorted(Tail(s), d, existing_dates)

\* sort_by is stable; dates that compare equal are the same string.
RECURSIVE SortDates(_, _)
SortDates(dates, existing_dates) ==
    IF dates = <<>> THEN <<>>
    ELSE InsertSorted(SortDates(SubSeq(dates, 1, Len(dates) - 1), existing_dates),
                      dates[Len(dates)], existing_dates)

\* The records of one page, in the order of its results.
PageRecords(results, api_key_id) ==
    [i \in 1..Len(results) |-> SalesRecord(results[i], api_key_id)]

\* max_id of a page: the string parsed, 0 when absent or not a number.
MaxId(max_id) == UnwrapOr(ParseI64(UnwrapOr(max_id, "0")), 0)

HasMoreWhenCursorAdvances(max_id, page_highwatermark, results) ==
    max_id > page_highwatermark

HasMoreWhenCursorNotSmaller(max_id, page_highwatermark, results) ==
    max_id >= page_highwatermark /\ results # <<>>

\* has_more = max_id > page_highwatermark && !results.is_empty()
HasMore(max_id, page_highwatermark, results) ==
    max_id > page_highwatermark /\ results # <<>>

\* The command reads the stored watermark and the existing dates under the
\* database lock, then sends the discovery request.
FetchBegin(api_key_id) ==
    /\ run.pc = "idle"
    /\ run' = [pc |-> "discover", api_key_id |-> api_key_id,
               stored_highwatermark |-> get_highwatermark(sync_meta, api_key_id),
               existing_dates |-> get_existing_dates(sales, api_key_id),
               new_highwatermark |-> 0, sorted_dates |-> <<>>, di |-> 0,
               page_highwatermark |-> 0, date_sales |-> <<>>,
               batch_sales |-> <<>>, total_records |-> 0, fetched |-> <<>>,
               result_highwatermark |-> NoWatermark, written |-> {},
               pending_before |->
                    {t.date : t \in {x \in sync_tasks :
                        x.api_key_id = api_key_id /\ IsPending(x)}}]
    /\ last' = Last("fetch_begin", api_key_id, TRUE)
    /\ UNCHANGED <<sales, sync_tasks, sync_meta, others>>

\* The fetch_sales_data command from its first line: it reads the secret
\* from the vault and returns an error when the vault cannot be read or holds
\* no secret of that id; otherwise the run begins.
FetchSalesData(api_key_id) ==
    IF storage_get_api_key(vault, api_key_id).value # None
    THEN FetchBegin(api_key_id)
    ELSE /\ run.pc = "idle"
         /\ last' = Last("fetch_sales_data", api_key_id, FALSE)
         /\ UNCHANGED <<sales, sync_tasks, sync_meta, run, others>>

\* RunResult when an error still carries the watermark computed so far.
RunResultWithWatermark(ok, new_highwatermark, fetched, failed) ==
    [Last("fetch_sales_data", run.api_key_id, ok) EXCEPT
        !.ret = new_highwatermark, !.dates = run.sorted_dates,
        !.fetched = fetched, !.failed = failed,
        !.result_highwatermark = run.result_highwatermark,
        !.new_highwatermark = Some(run.new_highwatermark)]

\* The result the command returns: Ok(FetchResult) or Err.
RunResult(ok, new_highwatermark, fetched, failed) ==
    [Last("fetch_sales_data", run.api_key_id, ok) EXCEPT
        !.ret = new_highwatermark, !.dates = run.sorted_dates,
        !.fetched = fetched, !.failed = failed,
        !.result_highwatermark = run.result_highwatermark,
        !.new_highwatermark = IF ok THEN Some(new_highwatermark) ELSE None]

\* total_records of a run: the records of the dates it fetched.
RECURSIVE TotalRecords(_)
TotalRecords(fetched) ==
    IF fetched = <<>> THEN 0 ELSE Len(Head(fetched)) + TotalRecords(Tail(fetched))

\* What the caller of the fetch_sales_data command receives for the run that
\* `last` describes: Ok(FetchResult { sales: vec![], new_highwatermark,
\* record_count }), or Err(String) with the text of the SteamApiError: of a
\* failed request (failed > 0: the position of the date being fetched; the
\* discovery request otherwise) or of a failed save_batch.
FetchSalesDataResult(l) ==
    IF l.ok
    THEN [ok |-> TRUE, sales |-> <<>>, new_highwatermark |-> l.ret,
          record_count |-> Some(TotalRecords(l.fetched))]
    ELSE [ok |-> FALSE,
          error |-> IF l.failed > 0 \/ l.dates = <<>>
                    THEN "API error: Steam API error: 500 Internal Server Error"
                    ELSE "API error: SQLite error"]

\* The response of GetChangedDatesForPartner arrives (or the request fails).
Discover(ok, dates, result_highwatermark) ==
    /\ run.pc = "discover"
    /\ IF ~ok
       THEN /\ run' = NoRun
            /\ last' = RunResult(FALSE, 0, <<>>, 0)
       ELSE LET hwm == NewHighwatermark(result_highwatermark,
                                        run.stored_highwatermark)
            IN  IF dates = <<>>
                THEN /\ run' = NoRun
                     /\ last' = [RunResult(TRUE, hwm, <<>>, 0) EXCEPT
                                    !.result_highwatermark = result_highwatermark]
                ELSE /\ run' = [run EXCEPT
                                    !.pc = "fetch", !.new_highwatermark = hwm,
                                    !.result_highwatermark = result_highwatermark,
                                    !.sorted_dates =
                                        SortDates(dates, run.existing_dates),
                                    !.di = 1]
                     /\ UNCHANGED last
    /\ UNCHANGED <<sales, sync_tasks, sync_meta, others>>

ChunkEndAtLastDate(di, len) == di = len

\* sorted_dates.chunks(PARALLEL_BATCH_SIZE): whether the date at position di
\* of len is the last of its chunk.
ChunkEnd(di, len) == di % PARALLEL_BATCH_SIZE = 0 \/ di = len

\* The response of one GetDetailedSales page of date sorted_dates[di] arrives
\* (or the request fails).  With the last page of the last date of a chunk the
\* chunk is saved (save_err: the statement of the save that the store fails,
\* 0 for none), and with the last chunk the command returns.
FetchPage(ok, results, max_id, save_err) ==
    /\ run.pc = "fetch"
    /\ LET date_sales == run.date_sales \o PageRecords(results, run.api_key_id)
           has_more == HasMore(MaxId(max_id), run.page_highwatermark, results)
           batch_sales == run.batch_sales \o date_sales
           chunk_end == ChunkEnd(run.di, Len(run.sorted_dates))
           saved == save_sales(sales, batch_sales, run.api_key_id, save_err)
       IN  /\ (save_err # 0) =>
                    /\ ok /\ ~has_more /\ chunk_end /\ batch_sales # <<>>
                    /\ save_err <= Len(batch_sales) + 1
           /\ IF ~ok
              THEN /\ run' = NoRun
                   /\ last' = RunResult(FALSE, 0, run.fetched, run.di)
                   /\ UNCHANGED sales
              ELSE IF has_more
              THEN /\ run' = [run EXCEPT !.date_sales = date_sales,
                                         !.page_highwatermark = MaxId(max_id)]
                   /\ UNCHANGED <<sales, last>>
              ELSE IF ~chunk_end
              THEN /\ run' = [run EXCEPT !.date_sales = <<>>,
                                         !.page_highwatermark = 0,
                                         !.batch_sales = batch_sales,
                                         !.fetched = Append(@, date_sales),
                                         !.di = @ + 1]
                   /\ UNCHANGED <<sales, last>>
              ELSE IF batch_sales # <<>> /\ ~saved.ok
              THEN /\ run' = NoRun
                   /\ last' = RunResult(FALSE, 0, Append(run.fetched, date_sales), 0)
                   /\ sales' = saved.sales
              ELSE /\ sales' = IF batch_sales # <<>> THEN saved.sales ELSE sales
                   /\ IF run.di = Len(run.sorted_dates)
                      THEN /\ run' = NoRun
                           /\ last' = RunResult(TRUE, run.new_highwatermark,
                                                 Append(run.fetched, date_sales), 0)
                      ELSE /\ run' = [run EXCEPT
                                        !.date_sales = <<>>,
                                        !.page_highwatermark = 0,
                                        !.batch_sales = <<>>,
                                        !.fetched = Append(@, date_sales),
                                        !.written = @ \cup
                                            {batch_sales[i].id[1] :
                                                i \in 1..Len(batch_sales)},
                                        !.total_records = @ + Len(batch_sales),
                                        !.di = @ + 1]
                           /\ UNCHANGED last
    /\ UNCHANGED <<sync_tasks, sync_meta, others>>

\* The caller of the command receives Ok(FetchResult) and stores its
\* new_highwatermark with the set_highwatermark command (state Idle of the
\* orchestrator: success, watermark persisted).
AdvanceWatermark ==
    /\ run.pc = "idle"
    /\ last.op = "fetch_sales_data" /\ last.ok
    /\ sync_meta' = set_highwatermark(sync_meta, last.api_key_id, last.ret)
    /\ last' = [Last("sync_done", last.api_key_id, TRUE) EXCEPT
                    !.ret = last.ret,
                    !.result_highwatermark = last.result_highwatermark]
    /\ UNCHANGED <<sales, sync_tasks, run, others>>

----------------------------------------------------------------------------
(* Inputs *)

\* The records fetch_sales_for_date can build for a credential.
FetchedRecords(api_key_id, dates, packageids) ==
    {SalesRecord(SteamSaleItem(d, p, Some(u)), api_key_id) :
        d \in dates, p \in packageids, u \in Units}

\* A record as the save_sales_data command can receive it without its id.
WithoutId(record) == [record EXCEPT !.id = None]

----------------------------------------------------------------------------
(* Specification Spec: the commands that write table sales.  The records of a
   save_sales_data call carry any credential, also one that is not the
   api_key_id argument.  The store fails no statement of a save, or its second
   one: the execute of the second record, or the commit after a single one. *)

SpecDates == {DateSeq[1]}
SpecRecords ==
    FetchedRecords("A", SpecDates, {None})
        \cup FetchedRecords("B", SpecDates, {Some(1)})
        \cup {WithoutId(SalesRecord(SteamSaleItem(DateSeq[1], None, Some(1)), "A"))}

Next ==
    \/ \E k \in ApiKeyIds, data \in SeqsUpTo2(SpecRecords), err_at \in {0, 2} :
            /\ err_at <= Len(data) + 1
            /\ SaveSalesData(data, k, err_at)
    \/ \E k \in ApiKeyIds, d \in SpecDates : ClearSalesForDate(k, d)
    \/ \E k \in ApiKeyIds : ClearDataForKey(k)

Spec == Init /\ [][Next]_vars

----------------------------------------------------------------------------
(* Specification SpecTasks: the task queue of one credential over two dates,
   with the facts of those dates. *)

TaskKey == "A"
TaskIds == {create_task_id(TaskKey, d) : d \in Dates} \cup {create_task_id("B", DateSeq[1])}
TaskRecords ==
    {SalesRecord(SteamSaleItem(d, None, Some(1)), TaskKey) : d \in Dates}

NextTasks ==
    \/ \E data \in SeqsUpTo2(TaskRecords) : SaveSalesData(data, TaskKey, 0)
    \/ \E dates \in SeqsUpTo2(Dates), now \in Times, err_at \in 0..4 :
            /\ err_at <= 2 * Len(dates)
            /\ CreateSyncTasks(TaskKey, dates, now, err_at)
    \/ \E id \in TaskIds : MarkTaskInProgress(id)
    \/ \E id \in TaskIds, now \in Times : MarkTaskDone(id, now)
    \/ ResetInProgressTasks
    \/ ClearCompletedTasks
    \/ DeleteSyncTasksForKey(TaskKey)

SpecTasks == Init /\ [][NextTasks]_vars

----------------------------------------------------------------------------
(* Specification SpecSync: sync runs of one credential against a remote that
   returns any dates and any pages, with the watermark stored after a
   successful run; the store may fail the second statement of a save and the
   process may be killed and started again at any point. *)

SyncKey == "A"

\* The line items the remote holds: of the first date with or without a
\* package, of the other dates without.
SyncItems(date) ==
    {SteamSaleItem(date, p, Some(1)) :
        p \in IF date = DateSeq[1] THEN {None, Some(1)} ELSE {None}}

DiscoveredDates ==
    {<<>>, <<DateSeq[1]>>, <<DateSeq[2]>>, <<DateSeq[1], DateSeq[2]>>,
     <<DateSeq[2], DateSeq[1]>>}

DiscoveredWatermarks ==
    {NoWatermark, StringWatermark("1"), StringWatermark("soon"),
     NumberWatermark(1, FALSE), NumberWatermark(0, TRUE),
     NumberWatermark(MaxWatermark, TRUE)}

SyncWatermarks == {NoWatermark, NumberWatermark(MaxWatermark, TRUE)}

\* The pages the remote can return for the date being fetched: empty, or one
\* line item of that date.
PageResults ==
    IF run.pc = "fetch"
    THEN {<<>>} \cup {<<i>> : i \in SyncItems(run.sorted_dates[run.di])}
    ELSE {}

CursorValues == {None} \cup {Some(to_string(n)) : n \in 0..MaxCursor}

NextSync ==
    \/ FetchBegin(SyncKey)
    \/ Discover(FALSE, <<>>, NoWatermark)
    \/ \E dates \in DiscoveredDates, w \in SyncWatermarks :
            Discover(TRUE, dates, w)
    \/ FetchPage(FALSE, <<>>, None, 0)
    \/ \E max_id \in CursorValues, save_err \in {0, 2} :
            \E results \in PageResults :
                FetchPage(TRUE, results, max_id, save_err)
    \/ AdvanceWatermark
    \/ Startup

SpecSync == Init /\ [][NextSync]_vars

----------------------------------------------------------------------------
(* Specification SpecRecovery: the task queue of one credential and sync runs
   of that credential that fetch one line item per date.  The task commands
   are issued between runs, and the process may be killed and started again at
   any point. *)

RecoveryDates == {<<>>, <<DateSeq[1]>>, <<DateSeq[2]>>}

RecoveryPages ==
    IF run.pc = "fetch"
    THEN {<<>>, <<SteamSaleItem(run.sorted_dates[run.di], None, Some(1))>>}
    ELSE {}

NextRecovery ==
    \/ FetchBegin(SyncKey)
    \/ Discover(FALSE, <<>>, NoWatermark)
    \/ \E dates \in RecoveryDates : Discover(TRUE, dates, NoWatermark)
    \/ FetchPage(FALSE, <<>>, None, 0)
    \/ \E max_id \in {None, Some("1")} : \E results \in RecoveryPages :
            FetchPage(TRUE, results, max_id, 0)
    \/ \E d \in Dates, now \in Times :
            run.pc = "idle" /\ CreateSyncTasks(SyncKey, <<d>>, now, 0)
    \/ \E t \in sync_tasks :
            run.pc = "idle" /\ t.status = "todo" /\ MarkTaskInProgress(t.id)
    \/ \E t \in sync_tasks, now \in Times :
            run.pc = "idle" /\ t.status = "in_progress" /\ MarkTaskDone(t.id, now)
    \/ Startup

SpecRecovery == Init /\ [][NextRecovery]_vars

----------------------------------------------------------------------------
(* Specification SpecWatermark: sync runs of one credential that fetch one
   line item per date against a remote that sends any watermark, while the
   watermark is set by command and stored after a successful run, and the
   process may be killed and started again at any point. *)

WatermarkDates == RecoveryDates \cup {<<DateSeq[1], DateSeq[2]>>}

NextWatermark ==
    \/ FetchBegin(SyncKey)
    \/ Discover(FALSE, <<>>, NoWatermark)
    \/ \E dates \in WatermarkDates, w \in DiscoveredWatermarks :
            Discover(TRUE, dates, w)
    \/ FetchPage(FALSE, <<>>, None, 0)
    \/ \E max_id \in {None, Some("1")}, save_err \in {0, 1} :
            \E results \in RecoveryPages :
                FetchPage(TRUE, results, max_id, save_err)
    \/ AdvanceWatermark
    \/ \E v \in Watermarks : SetHighwatermark(SyncKey, v)
    \/ Startup

SpecWatermark == Init /\ [][NextWatermark]_vars

----------------------------------------------------------------------------
(* Specification SpecStartup: the commands that write or clear the facts of
   one credential, whose line items of a day come per platform, and the start
   of the process on the store they left. *)

StartupItems ==
    {[SteamSaleItem(d, None, Some(1)) EXCEPT !.platform = p] :
        d \in Dates, p \in {None, Some("Windows")}}

StartupRecords == {SalesRecord(item, SyncKey) : item \in StartupItems}

NextStartup ==
    \/ \E data \in SeqsUpTo2(StartupRecords) : SaveSalesData(data, SyncKey, 0)
    \/ \E d \in Dates : ClearSalesForDate(SyncKey, d)
    \/ ClearDataForKey(SyncKey)
    \/ ClearAllData(0)
    \/ \E d \in Dates, now \in Times : CreateSyncTasks(SyncKey, <<d>>, now, 0)
    \/ Startup

SpecStartup == Init /\ [][NextStartup]_vars

\* Credentials are added and deleted while their facts, watermarks and tasks
\* are written; a deletion can fail at any statement and the program can stop
\* between two statements.
CredentialDate == DateSeq[1]

CredentialRecord(k) ==
    SalesRecord(SteamSaleItem(CredentialDate, None, Some(1)), k)

CredentialSecret == <<"k", "e", "y", "0", "1">>

NextCredentials ==
    \/ \E id \in ApiKeyIds : \E err_at \in 0..2 :
            AddApiKey(id, CredentialSecret, err_at)
    \/ \E k \in ApiKeyIds : SaveSalesData(<<CredentialRecord(k)>>, k, 0)
    \/ \E k \in ApiKeyIds : SetHighwatermark(k, 1)
    \/ \E k \in ApiKeyIds : CreateSyncTasks(k, <<CredentialDate>>, 0, 0)
    \/ \E id \in ApiKeyIds : DeleteBegin(id)
    \/ DeleteStep(TRUE)
    \/ DeleteStep(FALSE)
    \/ Startup

SpecCredentials == Init /\ [][NextCredentials]_vars

\* Credentials with any secret are added, read and deleted, and the program
\* is restarted; the files of the vault are left alone.
VaultSecrets == Secrets \ {CredentialSecret}

NextVault ==
    \/ \E id \in ApiKeyIds : \E key \in VaultSecrets : AddApiKey(id, key, 0)
    \/ \E id \in ApiKeyIds : GetApiKey(id)
    \/ \E id \in ApiKeyIds : DeleteBegin(id)
    \/ DeleteStep(TRUE)
    \/ Startup

SpecVault == Init /\ [][NextVault]_vars

\* Pairs of records are saved into the empty table: line items that vary in
\* fields of the identity key (package, platform absent, empty or named,
\* credential) and in fields outside it (primary app id, units).
IdentityItems ==
    {[SteamSaleItem(DateSeq[1], pk, Some(u)) EXCEPT
            !.platform = p, !.primary_appid = a] :
        pk \in {None, Some(1)}, u \in Units \ {0},
        p \in {None, Some(""), Some("Windows")}, a \in {None, Some(7)}}

IdentityRecords ==
    {SalesRecord(item, k) : item \in IdentityItems, k \in ApiKeyIds}

NextIdentity ==
    \/ \E r1 \in IdentityRecords : \E r2 \in IdentityRecords :
            /\ sales = {}
            /\ SaveSalesData(<<r1, r2>>, r1.api_key_id, 0)
    \/ ClearAllData(0)

SpecIdentity == Init /\ [][NextIdentity]_vars

----------------------------------------------------------------------------
(* Specification SpecIsolation: a sync run of one credential, interleaved at
   every database call with the store commands issued for either credential. *)

IsolationDates == {DateSeq[1]}
IsolationRecords ==
    FetchedRecords("A", IsolationDates, {None})
        \cup FetchedRecords("B", IsolationDates, {None})

NextIsolation ==
    \/ \E k \in ApiKeyIds, r \in IsolationRecords : SaveSalesData(<<r>>, k, 0)
    \/ \E k \in ApiKeyIds, d \in IsolationDates, now \in Times :
            CreateSyncTasks(k, <<d>>, now, 0)
    \/ \E k \in ApiKeyIds, value \in {1, MaxWatermark} : SetHighwatermark(k, value)
    \/ \E k \in ApiKeyIds : ClearDataForKey(k)
    \/ FetchBegin(SyncKey)
    \/ Discover(FALSE, <<>>, NoWatermark)
    \/ \E dates \in {<<>>, <<DateSeq[1]>>} : Discover(TRUE, dates, NoWatermark)
    \/ FetchPage(FALSE, <<>>, None, 0)
    \/ \E results \in PageResults : FetchPage(TRUE, results, None, 0)
    \/ AdvanceWatermark

SpecIsolation == Init /\ [][NextIsolation]_vars

----------------------------------------------------------------------------
(* Specification SpecOrder: sync runs of one credential that holds the facts
   of none, one or both dates, against a remote whose list of changed dates
   is any list of the two dates, also one that names a date twice. *)

OrderRecords == FetchedRecords(SyncKey, Dates, {None})

OrderDiscovered == SeqsUpTo2(Dates) \ {<<>>}

NextOrder ==
    \/ \E r \in OrderRecords : run.pc = "idle" /\ SaveSalesData(<<r>>, SyncKey, 0)
    \/ ClearDataForKey(SyncKey)
    \/ FetchBegin(SyncKey)
    \/ \E dates \in OrderDiscovered : Discover(TRUE, dates, NoWatermark)
    \/ FetchPage(FALSE, <<>>, None, 0)
    \/ \E results \in PageResults : FetchPage(TRUE, results, None, 0)

SpecOrder == Init /\ [][NextOrder]_vars

----------------------------------------------------------------------------
(* Specification SpecBatch: sync runs of one credential over up to four
   changed dates, more than one chunk holds, with one line item or none per
   date; a request may fail. *)

BatchDiscovered ==
    {<<DateSeq[1]>>, <<DateSeq[2], DateSeq[1]>>,
     <<DateSeq[1], DateSeq[2], DateSeq[3]>>,
     <<DateSeq[1], DateSeq[2], DateSeq[3], DateSeq[4]>>,
     <<DateSeq[4], DateSeq[3], DateSeq[2], DateSeq[1]>>}

BatchPages ==
    IF run.pc = "fetch"
    THEN {<<>>, <<SteamSaleItem(run.sorted_dates[run.di], None, Some(1))>>}
    ELSE {}

NextBatch ==
    \/ FetchBegin(SyncKey)
    \/ \E dates \in BatchDiscovered : Discover(TRUE, dates, NoWatermark)
    \/ FetchPage(FALSE, <<>>, None, 0)
    \/ \E results \in BatchPages : FetchPage(TRUE, results, None, 0)
    \/ ClearDataForKey(SyncKey)

SpecBatch == Init /\ [][NextBatch]_vars

----------------------------------------------------------------------------
(* Specification SpecPaging: the page requests of sync runs of one credential
   against a remote that answers every request, with any cursor up to
   MaxCursor or none, or with an error. *)

PagingDiscovered == {<<DateSeq[1]>>, <<DateSeq[1], DateSeq[2]>>}

PageResponse ==
    \/ FetchPage(FALSE, <<>>, None, 0)
    \/ \E max_id \in CursorValues : \E results \in PageResults :
            FetchPage(TRUE, results, max_id, 0)

NextPaging ==
    \/ FetchBegin(SyncKey)
    \/ \E dates \in PagingDiscovered : Discover(TRUE, dates, NoWatermark)
    \/ PageResponse
    \/ ClearDataForKey(SyncKey)

SpecPaging == Init /\ [][NextPaging]_vars /\ WF_vars(PageResponse)

----------------------------------------------------------------------------
(* Specification SpecDeleteRace: a credential is added, sync runs of it fetch
   one date, and delete_api_key removes it, also while a run is in flight.
   delete_api_key holds the database lock from its first statement on the
   store to its last; the run takes the lock for its reads at the start and
   for each save_batch. *)

DatabaseLockFree ==
    IF del = NoDelete THEN TRUE ELSE DeleteOrder[del.step] \in {"sales", "vault"}

NextDeleteRace ==
    \/ AddApiKey(SyncKey, CredentialSecret, 0)
    \/ DatabaseLockFree /\ FetchSalesData(SyncKey)
    \/ \E dates \in {<<>>, <<DateSeq[1]>>} : Discover(TRUE, dates, NoWatermark)
    \/ DatabaseLockFree /\ FetchPage(FALSE, <<>>, None, 0)
    \/ \E results \in PageResults, max_id \in CursorValues :
            DatabaseLockFree /\ FetchPage(TRUE, results, max_id, 0)
    \/ DeleteBegin(SyncKey)
    \/ DeleteStep(TRUE)

SpecDeleteRace == Init /\ [][NextDeleteRace]_vars

----------------------------------------------------------------------------
(* Specification SpecKeyCommands: add_api_key, delete_api_key and
   clear_all_data, one command after the other, each of which can fail at any
   of its steps, and the process can stop between two steps of a deletion and
   start again. *)

NextKeyCommands ==
    \/ \E id \in ApiKeyIds, key \in {CredentialSecret, <<>>}, err_at \in 0..2 :
            del = NoDelete /\ AddApiKey(id, key, err_at)
    \/ \E id \in ApiKeyIds : DeleteBegin(id)
    \/ DeleteStep(TRUE)
    \/ DeleteStep(FALSE)
    \/ \E err_at \in 0..4 : del = NoDelete /\ ClearAllData(err_at)
    \/ \E k \in ApiKeyIds : SetHighwatermark(k, 1)
    \/ Startup

SpecKeyCommands == Init /\ [][NextKeyCommands]_vars

\* Credentials are added and read while the files of the vault are altered,
\* cut or lost and the program is restarted.
NextVaultFiles ==
    \/ \E id \in ApiKeyIds : AddApiKey(id, CredentialSecret, 0)
    \/ \E id \in ApiKeyIds : GetApiKey(id)
    \/ TamperDataFile
    \/ \E len \in 0..(BlobLen - 1) : TruncateDataFile(len)
    \/ LoseKeyFile
    \/ Startup

SpecVaultFiles == Init /\ [][NextVaultFiles]_vars

\* Credentials are added, read and deleted and all data is cleared, while the
\* key file can be lost and the data file left empty by a write that did not
\* complete, and the program is restarted.
NextKeyLoss ==
    \/ \E id \in ApiKeyIds : del = NoDelete /\ AddApiKey(id, CredentialSecret, 0)
    \/ \E id \in ApiKeyIds : GetApiKey(id)
    \/ \E id \in ApiKeyIds : DeleteBegin(id)
    \/ DeleteStep(TRUE)
    \/ del = NoDelete /\ ClearAllData(0)
    \/ LoseKeyFile
    \/ TruncateDataFile(0)
    \/ Startup

SpecKeyLoss == Init /\ [][NextKeyLoss]_vars

\* init_schema on the stores the earlier versions of the schema left: any
\* stored version, any rows written at version 1; a statement can fail and
\* the program can stop between two statements.
InitMigrate ==
    /\ InitData
    /\ \E v \in 0..SCHEMA_VERSION :
       \E rows \in SUBSET (LegacyRows \cup {KeyedRow}) :
            /\ v = 0 => rows = {}
            /\ v = 1 => rows \subseteq LegacyRows
            /\ schema = StoredSchema(v, rows)
            /\ mig = [NoMigration(v) EXCEPT !.origin = Some(schema)]

NextMigrate ==
    \/ InitSchemaBegin
    \/ MigrateStep(TRUE)
    \/ MigrateStep(FALSE)
    \/ MigrationInterrupted

SpecMigrate == InitMigrate /\ [][NextMigrate]_vars

----------------------------------------------------------------------------
(* Claims about the tables *)

UniqueIds == \A r1 \in sales : \A r2 \in sales : r1.id = r2.id => r1 = r2

\* The columns an upsert of record under api_key_id leaves in the row.
WrittenRow(record, api_key_id) ==
    [id |-> record.id[1], date |-> record.date, app_id |-> record.app_id,
     package_id |-> IF record.packageid = None THEN 0 ELSE record.packageid[1],
     country_code |-> record.country_code, units_sold |-> record.units_sold,
     api_key_id |-> api_key_id]

\* The record of the batch that was upserted last under identity key id.
LastUpsertOf(data, id) ==
    data[CHOOSE i \in 1..Len(data) :
            /\ data[i].id = Some(id)
            /\ \A j \in (i + 1)..Len(data) : data[j].id # Some(id)]

UpsertStep ==
    (last'.op = "save_sales" /\ last'.ok) =>
        LET data == last'.data
            ids == {data[i].id[1] : i \in 1..Len(data)}
        IN  /\ \A id \in ids :
                {r \in sales' : r.id = id}
                    = {WrittenRow(LastUpsertOf(data, id), last'.api_key_id)}
            /\ {r \in sales' : r.id \notin ids} = {r \in sales : r.id \notin ids}
            /\ (ids \subseteq {r.id : r \in sales})
                    => Cardinality(sales') = Cardinality(sales)

\* C1: no two rows of sales share an identity key, and a successful save_sales
\* leaves, for every identity key of its batch, exactly one row, holding in
\* every column the values of the latest upsert of that key; the other rows are
\* unchanged, and the row count is unchanged when every key was already stored.
C1_UpsertOverwritesInPlace == [](UniqueIds) /\ [][UpsertStep]_vars

\* C1 witness: a batch that upserts one identity key twice with different
\* measures into a table that already held that key, leaving the row count as
\* it was.
C1_Witness ==
    /\ last.op = "save_sales" /\ last.ok
    /\ Len(last.data) = 2
    /\ last.data[1].id = last.data[2].id
    /\ last.data[1].units_sold # last.data[2].units_sold
    /\ last.pre_rows = Cardinality(sales)
    /\ Cardinality(sales) = 2

\* C2: right after a successful create_sync_tasks(credential, dates), for each
\* date of dates the store holds no sales fact of (credential, date) and exactly
\* one task of that pair, which is todo and has no completed_at.
C2_CreateTasksClearsFacts ==
    (last.op = "create_sync_tasks" /\ last.ok) =>
        \A i \in 1..Len(last.dates) :
            LET d == last.dates[i]
                mine == {t \in sync_tasks :
                            t.api_key_id = last.api_key_id /\ t.date = d}
            IN  /\ {r \in sales : r.api_key_id = last.api_key_id /\ r.date = d} = {}
                /\ Cardinality(mine) = 1
                /\ \A t \in mine : t.status = "todo" /\ t.completed_at = None

\* C2 witness: a successful call over two dates that found stored facts and
\* tasks in status done and in_progress.
C2_Witness ==
    /\ last.op = "create_sync_tasks" /\ last.ok
    /\ Len(last.dates) = 2 /\ last.dates[1] # last.dates[2]
    /\ last.pre_rows = 2 /\ sales = {}
    /\ last.pre_status = {"done", "in_progress"}

ResetStep ==
    (last'.op = "reset_in_progress_tasks") =>
        /\ \A t \in sync_tasks :
                IF t.status = "in_progress"
                THEN /\ [t EXCEPT !.status = "todo"] \in sync_tasks'
                     /\ t \notin sync_tasks'
                ELSE t \in sync_tasks'
        /\ Cardinality(sync_tasks') = Cardinality(sync_tasks)
        /\ last'.ret = Cardinality({t \in sync_tasks : t.status = "in_progress"})
        /\ get_pending_tasks(sync_tasks') # {}
        /\ \A listing \in get_pending_tasks(sync_tasks') :
                \A t \in sync_tasks :
                    t.status = "in_progress" =>
                        \E i \in 1..Len(listing) :
                            listing[i] = [t EXCEPT !.status = "todo"]

\* C7: reset_in_progress_tasks turns every in_progress task into todo, leaves
\* todo and done tasks as they are, returns the number of tasks it changed, and
\* a get_pending_tasks that follows lists each formerly in_progress task as todo.
C7_ResetRecoversInProgress == [][ResetStep]_vars

\* C7 witness: a reset that changed one task while another task was done.
C7_Witness ==
    /\ last.op = "reset_in_progress_tasks"
    /\ last.ret = 1
    /\ last.pre_status = {"in_progress", "done"}
    /\ \E t \in sync_tasks : t.status = "done"

MarkDoneStep ==
    (last'.op = "mark_task_done") =>
        IF \E t \in sync_tasks : t.id = last'.task_id /\ t.status = "in_progress"
        THEN \E t \in sync_tasks' : t.id = last'.task_id /\ t.status = "done"
        ELSE ~last'.ok /\ sync_tasks' = sync_tasks

\* C9: mark_task_done on a task that is not in_progress (todo, done or absent)
\* returns an error and leaves table sync_tasks unchanged; only an in_progress
\* task becomes done.
C9_CompleteOnlyClaimed == [][MarkDoneStep]_vars

----------------------------------------------------------------------------
(* Claims about the sync run *)

FactsOf(api_key_id, date) ==
    {r \in sales : r.api_key_id = api_key_id /\ r.date = date}

\* C3: when the fetch_sales_data command has returned Ok, for every date the
\* discovery reported the rows of sales of (credential, date) are exactly the
\* records the detail fetch of that date returned in this run, each under its
\* non-empty identity key; no row stored for that date before the run is left
\* unless the remote returned it again.
C3_RunStoresExactlyFetched ==
    (last.op = "fetch_sales_data" /\ last.ok) =>
        \A i \in 1..Len(last.dates) :
            /\ FactsOf(last.api_key_id, last.dates[i])
                    = {WrittenRow(last.fetched[i][j], last.api_key_id) :
                            j \in 1..Len(last.fetched[i])}
            /\ \A r \in FactsOf(last.api_key_id, last.dates[i]) : r.id # ""

FailedFetchStep ==
    (run.pc = "fetch" /\ last'.op = "fetch_sales_data" /\ last'.failed > 0) =>
        /\ sales' = sales
        /\ \A i \in 1..Len(run.date_sales) :
                run.date_sales[i].id[1] \notin run.written
        /\ ~\E t \in sync_tasks' :
                /\ t.api_key_id = run.api_key_id
                /\ t.date = run.sorted_dates[run.di]
                /\ t.status = "done"

\* C5: when the detail fetch of a date fails on any page, no record of the
\* pages fetched so far for that date has been written to sales, and when the
\* run has ended the task of that date is not in status done.
C5_FailedDateNotDone == [][FailedFetchStep]_vars

\* C6: when a run has failed on the detail fetch of a date, the records of every
\* date whose detail fetch completed earlier in that run are rows of sales.
C6_ProgressKeptPerDate ==
    (last.op = "fetch_sales_data" /\ ~last.ok /\ last.failed > 0) =>
        \A i \in 1..Len(last.fetched) :
            \A j \in 1..Len(last.fetched[i]) :
                WrittenRow(last.fetched[i][j], last.api_key_id) \in sales

\* C8: after a start of the process no task is in_progress, and a run that
\* found pending tasks of its credential fetches their dates before any date
\* that only the discovery of this run reported.
C8_RecoveryBeforeDiscovery ==
    /\ (last.op = "startup") => \A t \in sync_tasks : t.status # "in_progress"
    /\ (run.pc = "fetch" /\ run.sorted_dates[run.di] \notin run.pending_before)
            => run.pending_before
                    \subseteq {run.sorted_dates[j] : j \in 1..(run.di - 1)}

WatermarkStep ==
    (last'.op # "clear_data_for_key") =>
        \A k \in ApiKeyIds :
            get_highwatermark(sync_meta', k) >= get_highwatermark(sync_meta, k)

\* C10: for every credential, no step other than the deletion of the
\* credential's data lowers the stored watermark.
C10_WatermarkNeverDecreases == [][WatermarkStep]_vars

----------------------------------------------------------------------------
(* Claims about the watermark *)

NoWatermarkRow(k) == ~\E m \in sync_meta : m.key = HwmKey(k)

RunFrameStep ==
    /\ (run' # run) => sync_meta' = sync_meta
    /\ (last'.op = "fetch_sales_data" /\ ~last'.ok)
            => (sync_meta' = sync_meta /\ last'.new_highwatermark = None)
    /\ (sync_meta' # sync_meta)
            => last'.op \in {"set_highwatermark", "sync_done"}

----------------------------------------------------------------------------
(* Claims about atomicity *)

AtomicPerDateStep ==
    (last'.op = "create_sync_tasks") =>
        \A i \in 1..Len(last'.dates) :
            LET k == last'.api_key_id
                d == last'.dates[i]
                before == {r \in sales : r.api_key_id = k /\ r.date = d}
                after == {r \in sales' : r.api_key_id = k /\ r.date = d}
                task == {t \in sync_tasks : t.id = create_task_id(k, d)}
                task_after == {t \in sync_tasks' : t.id = create_task_id(k, d)}
            IN  \/ after = {} /\ \E t \in task_after : t.status = "todo"
                \/ after = before /\ task_after = task

\* C12: whatever statement of create_sync_tasks fails or is the last one
\* executed, for each date of the call either both effects are in place (no
\* fact of (credential, date) and the task todo) or neither is (the facts and
\* the task as before the call).
C12_CreateTasksAtomicPerDate == [][AtomicPerDateStep]_vars

SaveFailsStep ==
    (last'.op = "save_sales") =>
        /\ ((\E i \in 1..Len(last'.data) : last'.data[i].id = None)
                \/ last'.failed > 0) => ~last'.ok
        /\ ~last'.ok => sales' = sales

\* C13: a save_sales call in which a record has no identity key or the store
\* fails a statement returns the error, and a save_sales call that returns an
\* error leaves table sales exactly as it was before the call.
C13_SaveAllOrNothing == [][SaveFailsStep]_vars

\* C13 witness: a batch of two records whose first record is not in the table
\* and whose second execute the store failed; the call returned the error and
\* the first record is not stored.
C13_Witness ==
    /\ last.op = "save_sales" /\ ~last.ok
    /\ Len(last.data) = 2 /\ last.failed = 2
    /\ last.data[1].id # None /\ last.data[2].id # None
    /\ WrittenRow(last.data[1], last.api_key_id) \notin sales
    /\ sales # {}

Ids(rows) == {r.id : r \in rows}

FetchedIds(records) == {records[j].id[1] : j \in 1..Len(records)}

VisibleStep ==
    (run.pc = "fetch" /\ sales' # sales /\ last'.op # "startup") =>
        LET fetched == IF run'.pc = "fetch" THEN run'.fetched ELSE last'.fetched
        IN  \A i \in 1..Len(fetched) :
                \/ FetchedIds(fetched[i]) \subseteq Ids(sales')
                \/ FetchedIds(fetched[i]) \cap Ids(sales' \ sales) = {}

\* C14: every step of a run that changes table sales makes, for each date the
\* run has fetched, either all the facts of that date's fetch visible or none
\* of them: no state between two steps holds a strict, non-empty part of the
\* facts one fetch produced for a date.
C14_DateVisibleAtomically == [][VisibleStep]_vars

\* C14 witness: a run has returned Ok after the fetch of a date produced two
\* facts over two pages, and both are in the table.
C14_Witness ==
    /\ last.op = "fetch_sales_data" /\ last.ok
    /\ \E i \in 1..Len(last.fetched) :
            /\ Cardinality(FetchedIds(last.fetched[i])) = 2
            /\ FetchedIds(last.fetched[i]) \subseteq Ids(sales)

----------------------------------------------------------------------------
(* Claims about deletion *)

RemovalStep ==
    (~(Ids(sales) \subseteq Ids(sales'))) =>
        last'.op \in {"clear_data_for_key", "clear_all_data",
                      "create_sync_tasks", "clear_sales_for_date"}

\* C15: a step after which the identity key of a stored fact is no longer in
\* table sales is a credential deletion (clear_data_for_key, clear_all_data) or
\* a per-date clearing (create_sync_tasks, clear_sales_for_date); the start of
\* the process removes no fact.  Identity keys are unique in the table.
C15_FactsRemovedOnlyByClearing == [](UniqueIds) /\ [][RemovalStep]_vars

----------------------------------------------------------------------------
(* Deleting a credential *)

\* What the four stores hold for a credential.
FactsFor(id) == {r \in sales : r.api_key_id = id}

TasksFor(id) == {t \in sync_tasks : t.api_key_id = id}

WatermarkFor(id) == {m \in sync_meta : m.key = HwmKey(id)}

InfoFor(id) == {a \in api_keys : a.id = id}

SecretFor(id) == {e \in read_stored_keys(vault).keys : e.id = id}

NothingLeftOf(id) ==
    /\ FactsFor(id) = {}
    /\ TasksFor(id) = {}
    /\ WatermarkFor(id) = {}
    /\ InfoFor(id) = {}
    /\ SecretFor(id) = {}

\* A statement of delete_api_key leaves the rows of every other credential as
\* they were.
DeleteFrameStep ==
    (del # NoDelete /\ del' # del /\ last'.op # "startup") =>
        \A k \in ApiKeyIds \ {del.id} :
            /\ FactsFor(k)' = FactsFor(k)
            /\ TasksFor(k)' = TasksFor(k)
            /\ WatermarkFor(k)' = WatermarkFor(k)
            /\ InfoFor(k)' = InfoFor(k)
            /\ SecretFor(k)' = SecretFor(k)

\* C16: after a successful delete_api_key(X) the stores hold no fact, no sync
\* task, no watermark row, no metadata row and no secret for X, and the rows
\* of every other credential are unchanged.
C16_DeleteRemovesEverything ==
    /\ []((last.op = "delete_api_key" /\ last.ok) => NothingLeftOf(last.api_key_id))
    /\ [][DeleteFrameStep]_vars

\* C17: at every point where delete_api_key can be interrupted, between two of
\* its statements, the secret that was in the vault when the command was
\* called is still there as long as any fact, task, watermark or metadata row
\* of the credential is.
DataLeftOf(id) ==
    \/ FactsFor(id) # {}
    \/ TasksFor(id) # {}
    \/ WatermarkFor(id) # {}
    \/ InfoFor(id) # {}

C17_SecretDeletedLast ==
    (del # NoDelete /\ del.had_secret /\ DataLeftOf(del.id)) =>
        SecretFor(del.id) # {}

\* A deletion has removed the facts, the watermark and the metadata row of a
\* credential whose tasks are still there, and is about to remove the secret.
C17_Witness ==
    /\ del # NoDelete
    /\ del.had_secret
    /\ del.step = Len(DeleteOrder)
    /\ DataLeftOf(del.id)
    /\ SecretFor(del.id) # {}

----------------------------------------------------------------------------
(* Schema migrations *)

\* An init_schema call has returned Ok and no statement has failed and no
\* call was interrupted since the store was found.
ReturnedClean == mig.pc = "idle" /\ mig.calls >= 1 /\ mig.ok /\ mig.clean

RECURSIVE Ascending(_, _)
Ascending(a, b) == IF a > b THEN <<>> ELSE <<a>> \o Ascending(a + 1, b)

VersionStep == schema'.version >= schema.version

\* C18: from a stored version v in 0..3, init_schema runs exactly the
\* migration steps v+1, ..., 3, each once and in ascending order, and ends
\* with stored version 3; the stored version never decreases.
C18_MigrationsAscending ==
    /\ [](ReturnedClean =>
            /\ mig.executed = Ascending(mig.pre[1].version + 1, SCHEMA_VERSION)
            /\ schema.version = SCHEMA_VERSION)
    /\ [][VersionStep]_vars

\* init_schema has run the three steps on a store of version 0.
C18_Witness ==
    /\ ReturnedClean
    /\ mig.pre[1].version = 0
    /\ mig.executed = <<1, 2, 3>>

\* C19: init_schema twice in a row from version 0 leaves the store the first
\* call left, and init_schema on a store of version 3 changes nothing.
C19_MigrateIdempotent ==
    /\ (ReturnedClean /\ mig.from = 0 /\ mig.calls = 2) => schema = mig.first[1]
    /\ (ReturnedClean /\ mig.pre[1].version = SCHEMA_VERSION) => schema = mig.pre[1]

\* The second call in a row from version 0 has returned.
C19_Witness ==
    /\ ReturnedClean
    /\ mig.from = 0
    /\ mig.calls = 2
    /\ schema.version = SCHEMA_VERSION

\* The structural effects of the steps 1..n are in place: the tables the
\* steps create exist, table sales has at least the shape step n gives it, and
\* its indexes exist.
InPlace(n) ==
    /\ n >= 1 => /\ schema.sync_meta
                 /\ schema.sales.shape # "none"
                 /\ StandardIndexes \subseteq schema.indexes
    /\ n >= 2 => /\ schema.api_keys
                 /\ schema.sales.shape \in {"v2", "v3"}
                 /\ KeyIndex \subseteq schema.indexes
    /\ n >= 3 => schema.sales.shape = "v3"

\* Step n is partly applied: a table it copies into exists, or table sales is
\* between two of its shapes.
PartlyApplied(n) ==
    \/ n = 2 /\ (schema.sales_new.shape # "none" \/ schema.sales.shape = "v1k")
    \/ n = 3 /\ schema.sales_v3.shape # "none"

\* C20: in every state the store can be left in, a step interrupted between
\* two of its statements included, a stored schema version N implies that the
\* structural effects of the steps 1..N are in place, and a step that is
\* partly applied has not had its version persisted.
C20_VersionImpliesStructure ==
    mig.pc = "idle" =>
        /\ InPlace(schema.version)
        /\ \A n \in 2..SCHEMA_VERSION : PartlyApplied(n) => schema.version < n

\* The store an uninterrupted migration of store s to version 3 produces.
Migrated(s) ==
    [StoredSchema(SCHEMA_VERSION, {}) EXCEPT
        !.sales.rows = {V3Row(AddColumn(r)) : r \in s.sales.rows}]

\* init_schema has returned, the store has failed no statement, and before
\* this call nothing happened but init_schema calls, interrupted or not.
ReturnedAfterInterruptions ==
    mig.pc = "idle" /\ mig.calls >= 1 /\ ~mig.faults /\ ~mig.stopped

\* C21: a migration step is idempotent to re-run: when a step was interrupted
\* after any of its statements and init_schema runs again, it returns Ok, the
\* stored version is 3 and the store is the one an uninterrupted migration
\* produces, with every row sales had.
C21_InterruptedStepRerun ==
    ReturnedAfterInterruptions =>
        /\ mig.ok
        /\ schema = Migrated(mig.origin[1])

\* C22: every row of sales before the migration to version 3 is in sales
\* afterwards with the same date, app id, package id, country, measures and
\* credential and the id date|app_id|package_id|country_code|api_key_id, and
\* the number of rows is the same.
C22_V3KeepsRows ==
    (ReturnedClean /\ mig.pre[1].version = 2) =>
        /\ \A r \in mig.pre[1].sales.rows :
                \E q \in schema.sales.rows :
                    /\ q.date = r.date
                    /\ q.app_id = r.app_id
                    /\ q.package_id = r.package_id
                    /\ q.country_code = r.country_code
                    /\ q.units_sold = r.units_sold
                    /\ q.api_key_id = r.api_key_id
                    /\ q.id = r.date \o "|" \o to_string(r.app_id) \o "|" \o
                              to_string(r.package_id) \o "|" \o
                              r.country_code \o "|" \o r.api_key_id[1]
        /\ Cardinality(schema.sales.rows) = Cardinality(mig.pre[1].sales.rows)

\* Three rows, two of them alike but for the credential, have been migrated
\* from version 2 to version 3.
C22_Witness ==
    /\ ReturnedClean
    /\ mig.pre[1].version = 2
    /\ Cardinality(mig.pre[1].sales.rows) = 3
    /\ schema.sales.shape = "v3"

\* C23: when a statement of a migration step fails, the write of the schema
\* version included, init_schema returns an error.
C23_StepErrorAborts ==
    (mig.pc = "idle" /\ mig.calls = 1 /\ ~mig.clean) => ~mig.ok

----------------------------------------------------------------------------
(* The vault *)

\* The data file exists and cannot be decrypted with the loaded key: it was
\* altered, cut to a shorter length (the empty file included), or written
\* under another key.
Undecryptable ==
    /\ vault.data.exists
    /\ \/ vault.data.tampered
       \/ vault.data.len < BlobLen
       \/ vault.data.key # vault.encryption_key

\* C24: whenever the data file cannot be decrypted, get_api_key returns a
\* Decryption error; it returns Ok(None) only when there is no data file or the
\* file decrypts and has no entry for the id.
C24_UndecryptableIsError ==
    \A id \in ApiKeyIds :
        LET r == storage_get_api_key(vault, id)
        IN  /\ Undecryptable => (~r.ok /\ r.err = "Decryption")
            /\ (r.ok /\ r.value = None) =>
                    \/ ~vault.data.exists
                    \/ /\ ~Undecryptable
                       /\ \A e \in from_json(vault.data.plaintext) : e.id # id

\* What get_api_key returns for an id.
Returned(id) == storage_get_api_key(vault, id)

\* A call of add_api_key or delete_api_key with the key file unchanged: after
\* an add that returns Ok get_api_key returns the secret added, after a
\* delete that returns Ok it returns None, and for every other id it returns
\* what it returned before.
RoundTripStep ==
    /\ (last' # last /\ last'.op = "add_api_key" /\ last'.ok) =>
            /\ storage_get_api_key(vault', last'.api_key_id) =
                    [ok |-> TRUE, err |-> "", value |-> Some(last'.data[1])]
            /\ \A k \in ApiKeyIds \ {last'.api_key_id} :
                    Returned(k)' = Returned(k)
    /\ (last' # last /\ last'.op = "delete_api_key" /\ last'.ok) =>
            /\ storage_get_api_key(vault', last'.api_key_id) =
                    [ok |-> TRUE, err |-> "", value |-> None]
            /\ \A k \in ApiKeyIds \ {last'.api_key_id} :
                    Returned(k)' = Returned(k)
    /\ (last' # last /\ last'.op = "get_api_key") =>
            \A k \in ApiKeyIds : Returned(k)' = Returned(k)

\* C25: over any sequence of add_api_key and delete_api_key calls with an
\* unchanged key file, get_api_key returns the secret of the most recent add
\* for the id that no delete followed, whatever characters it has, None
\* otherwise, and a call for one id does not change what is returned for
\* another.
C25_VaultRoundTrip == [][RoundTripStep]_vars

\* Two credentials are in the vault, one with the empty secret and one whose
\* secret has the characters JSON escapes.
C25_Witness ==
    /\ \E a \in ApiKeyIds : Returned(a) = [ok |-> TRUE, err |-> "", value |-> Some(<<>>)]
    /\ \E b \in ApiKeyIds :
            Returned(b) = [ok |-> TRUE, err |-> "", value |-> Some(<<"\"", "\\">>)]

\* C26: the metadata row of a credential does not hold its secret: key_hash
\* differs from the secret registered for the id.
C26_MetadataWithoutSecret ==
    \A a \in api_keys :
        LET r == storage_get_api_key(vault, a.id)
        IN  (r.ok /\ r.value # None /\ r.value[1] # <<>>) =>
                a.key_hash # r.value[1]

----------------------------------------------------------------------------
(* Record identity *)

\* The sixteen fields of the identity key in their order: partner id, date,
\* line-item type, platform, country, currency, credential id, package id,
\* bundle id, package-sale-type, key-request id, base price, sale price,
\* app id, game-item id, combined-discount id.
Projection(r) ==
    <<r.partnerid, r.date, r.line_item_type, r.platform, r.country_code,
      r.currency, r.api_key_id, r.packageid, r.bundleid, r.package_sale_type,
      r.key_request_id, r.base_price, r.sale_price, r.appid, r.game_item_id,
      r.combined_discount_id>>

\* The string form of each projected field, an absent one being empty.
ProjectionStrings(r) ==
    <<OptIntStr(r.partnerid), r.date, r.line_item_type, OptStr(r.platform),
      r.country_code, OptStr(r.currency), r.api_key_id, OptIntStr(r.packageid),
      OptIntStr(r.bundleid), OptStr(r.package_sale_type),
      OptIntStr(r.key_request_id), OptStr(r.base_price), OptStr(r.sale_price),
      OptIntStr(r.appid), OptIntStr(r.game_item_id),
      OptIntStr(r.combined_discount_id)>>

RECURSIVE Join(_)
Join(strs) ==
    IF Len(strs) = 1 THEN strs[1] ELSE Head(strs) \o "|" \o Join(Tail(strs))

\* The records of the save_sales_data call made last.
SavedRecords ==
    IF last.op = "save_sales" THEN {last.data[i] : i \in DOMAIN last.data} ELSE {}

\* C27: the identity key is the sixteen projected fields joined in their fixed
\* order, so two records that agree on them have the same key whatever their
\* primary app id and units are.
C27_KeyIsProjection ==
    /\ \A r \in SavedRecords : r.id = Some(Join(ProjectionStrings(r)))
    /\ \A r1 \in SavedRecords : \A r2 \in SavedRecords :
            Projection(r1) = Projection(r2) => r1.id = r2.id

\* Two records that agree on the projected fields and differ in primary app
\* id and units were saved and share one row.
C27_Witness ==
    /\ last.op = "save_sales"
    /\ last.ok
    /\ Projection(last.data[1]) = Projection(last.data[2])
    /\ last.data[1].app_id # last.data[2].app_id
    /\ last.data[1].units_sold # last.data[2].units_sold
    /\ Cardinality(sales) = 1

\* C28: two records that differ in one of the sixteen projected fields, an
\* absent field differing from every present value, have different identity
\* keys, so that a saved batch holds one row per distinct tuple.
C28_DistinctTuplesDistinctKeys ==
    /\ \A r1 \in SavedRecords : \A r2 \in SavedRecords :
            Projection(r1) # Projection(r2) => r1.id # r2.id
    /\ (last.op = "save_sales" /\ last.ok) =>
            Cardinality(sales) = Cardinality({Projection(r) : r \in SavedRecords})

\* What the store holds for one credential: its sales facts, its sync tasks
\* and its watermark.
OwnedBy(id) == <<FactsFor(id), TasksFor(id), WatermarkFor(id)>>

\* The credential a step is performed for: the credential of the sync run when
\* the step is one of the run, the api_key_id argument of the command otherwise.
StepActor ==
    IF run' # run
    THEN IF run'.pc # "idle" THEN run'.api_key_id ELSE run.api_key_id
    ELSE last'.api_key_id

\* C29: a step performed for one credential (save_sales, create_sync_tasks,
\* set_highwatermark, clear_data_for_key, a step of a sync run), interleaved
\* in any way with the steps for the other credential, leaves the sales facts,
\* sync tasks and watermark of the other credential as they were.
C29_OtherCredentialUntouched ==
    [][\A k \in ApiKeyIds : k # StepActor => OwnedBy(k)' = OwnedBy(k)]_vars

\* The dates whose detail fetch has begun in the run, in the order of the
\* fetches: di counts them.
FetchedDates == SubSeq(run.sorted_dates, 1, run.di)

\* The dates of the run are in this order: no date the credential already has
\* facts of before a date it has none of, and ascending inside each of the
\* two groups.
NewDatesFirst ==
    LET sd == run.sorted_dates
    IN  \A i \in DOMAIN sd : \A j \in DOMAIN sd :
            i < j =>
                /\ sd[i] \in run.existing_dates => sd[j] \in run.existing_dates
                /\ (sd[i] \in run.existing_dates) = (sd[j] \in run.existing_dates)
                        => DateIndex(sd[i]) <= DateIndex(sd[j])

\* C30: while a run fetches, the changed dates are fetched in the order new
\* dates first, then known dates, ascending inside each group, one completed
\* fetch per date before the next begins, and no date is fetched twice.
C30_NewDatesFirstEachOnce ==
    run.pc = "fetch" =>
        /\ NewDatesFirst
        /\ Len(run.fetched) = run.di - 1
        /\ \A i \in DOMAIN FetchedDates : \A j \in DOMAIN FetchedDates :
                i # j => FetchedDates[i] # FetchedDates[j]

\* The step in which the response (results, max_id) of a page request arrives,
\* compared with the loop of fetch_sales_for_date: the loop goes on to the
\* next page exactly when the cursor returned is greater than the cursor sent
\* and the page is not empty, and sends the returned cursor; otherwise the
\* date's result is the records of all its pages, the last one included.
PageStep(results, max_id, save_err) ==
    FetchPage(TRUE, results, max_id, save_err) =>
        LET advanced == MaxId(max_id) > run.page_highwatermark /\ results # <<>>
            all_pages == run.date_sales \o PageRecords(results, run.api_key_id)
            continues == run'.pc = "fetch" /\ run'.di = run.di
        IN  /\ continues <=> advanced
            /\ continues =>
                    /\ run'.page_highwatermark = MaxId(max_id)
                    /\ run'.date_sales = all_pages
            /\ ~continues =>
                    (IF run'.pc = "fetch" THEN run'.fetched ELSE last'.fetched)
                        = Append(run.fetched, all_pages)

\* C31: fetch_sales_for_date sends cursor 0 first and then the cursor of the
\* previous response, stops exactly when the returned cursor is not greater
\* than the one sent or the page is empty, and returns the records of every
\* page received, in page order, the last page included.
C31_PaginationLoop ==
    [][/\ (run'.pc = "fetch" /\ (run.pc # "fetch" \/ run'.di # run.di)) =>
                run'.page_highwatermark = 0 /\ run'.date_sales = <<>>
       /\ \A max_id \in CursorValues : \A save_err \in {0, 2} :
            \A results \in PageResults : PageStep(results, max_id, save_err)]_vars

\* A date of two pages has been fetched: its result holds the record of the
\* first page and the record of the last one, in that order.
C31_Witness ==
    /\ last.op = "fetch_sales_data"
    /\ last.ok
    /\ \E i \in DOMAIN last.fetched :
            /\ Len(last.fetched[i]) = 2
            /\ last.fetched[i][1] # last.fetched[i][2]

\* C32: when a run over M changed dates fails on the request of date X after
\* N dates were fetched, the value the caller receives names N, M and X next
\* to the error.
C32_FailureCarriesProgress ==
    (last.op = "fetch_sales_data" /\ ~last.ok /\ last.failed > 0) =>
        LET r == FetchSalesDataResult(last)
        IN  /\ {"error", "processed", "total", "failed_date"} \subseteq DOMAIN r
            /\ r.processed = Len(last.fetched)
            /\ r.total = Len(last.dates)
            /\ r.failed_date = last.dates[last.failed]

\* C33: after init_schema has returned Ok, from whatever version the store
\* had, the store holds the four tables api_keys, sales, sync_tasks and
\* sync_meta, so that no task operation fails for a missing table.
C33_AllTablesCreated ==
    (mig.pc = "idle" /\ mig.calls >= 1 /\ mig.ok) =>
        {"api_keys", "sales", "sync_tasks", "sync_meta"} \subseteq Tables(schema)

\* The step in which a run ends with Ok on an empty list of changed dates.
EmptyDiscoveryStep ==
    /\ run.pc = "discover"
    /\ run'.pc = "idle"
    /\ last'.op = "fetch_sales_data"
    /\ last'.ok

\* The watermark the server returned, read as an integer, if it is one.
ReturnedWatermark(w) ==
    IF w.kind = "String" THEN ParseI64(w.s)
    ELSE IF w.kind = "Number" /\ w.is_i64 THEN Some(w.n)
    ELSE None

\* C34: on an empty list of changed dates the run ends with Ok at once: no
\* detail request, no fact, task or watermark row written, record count 0,
\* and as new watermark the value the server returned, or the stored
\* watermark when it returned none or one that is no integer.
C34_EmptyDiscoveryEndsRun ==
    [][EmptyDiscoveryStep =>
        LET r == FetchSalesDataResult(last')
        IN  /\ UNCHANGED <<sales, sync_tasks, sync_meta>>
            /\ last'.fetched = <<>>
            /\ r.record_count = Some(0)
            /\ r.new_highwatermark =
                    UnwrapOr(ReturnedWatermark(last'.result_highwatermark),
                             run.stored_highwatermark)]_vars

\* A run over no changed dates has ended with the stored watermark, which is
\* not 0, because the server's watermark was no integer.
C34_Witness ==
    /\ last.op = "fetch_sales_data"
    /\ last.ok
    /\ last.dates = <<>>
    /\ last.result_highwatermark.kind = "String"
    /\ ReturnedWatermark(last.result_highwatermark) = None
    /\ last.ret > 0

\* The dates of the facts a step has written.
DatesWritten == {r.date : r \in sales' \ sales}

\* C35: every commit of a run writes the facts of at most three dates, and
\* while the run fetches, one request is in flight: that of one date of the
\* list, the fetches of the dates before it being complete and those of the
\* dates after it not begun.
C35_BatchesOfThreeSequential ==
    /\ [](run.pc = "fetch" =>
            /\ run.di \in 1..Len(run.sorted_dates)
            /\ Len(run.fetched) = run.di - 1
            /\ \A r \in Range(run.batch_sales \o run.date_sales) :
                    \E i \in 1..run.di : r.date = run.sorted_dates[i])
    /\ [][(run.pc = "fetch" /\ sales' # sales) =>
            Cardinality(DatesWritten) <= 3]_vars

\* A run over four dates has committed its first chunk, the facts of three
\* dates, and is fetching the fourth date.
C35_Witness ==
    /\ run.pc = "fetch"
    /\ Len(run.sorted_dates) = 4
    /\ run.di = 4
    /\ Cardinality({r.date : r \in sales}) = 3

\* C36: mark_task_in_progress changes the status of a task only when the task
\* is todo; a done task stays done, so that it returns to the pending tasks
\* only by create_sync_tasks.
C36_ClaimOnlyFromTodo ==
    [][last'.op = "mark_task_in_progress" =>
        \A t \in sync_tasks : t.status # "todo" => t \in sync_tasks']_vars

\* The run is in the pagination loop of the date at position k.
Paging(k) == run.pc = "fetch" /\ run.di = k

\* C37: the cursor sent with a page request of a date is greater than the
\* cursor sent with the request before it, and, the cursors of the server
\* being at most MaxCursor, the loop of every date comes to its end.
C37_CursorIncreasesLoopEnds ==
    /\ [][(run.pc = "fetch" /\ run'.pc = "fetch" /\ run'.di = run.di
                /\ run' # run) =>
            run'.page_highwatermark > run.page_highwatermark]_vars
    /\ [](run.pc = "fetch" => run.page_highwatermark \in 0..MaxCursor)
    /\ Paging(1) ~> ~Paging(1)
    /\ Paging(2) ~> ~Paging(2)

\* A second page request of a date is in flight, sent with the cursor of the
\* first response.
C37_Witness ==
    /\ run.pc = "fetch"
    /\ run.page_highwatermark > 0
    /\ run.date_sales # <<>>

\* C38: once delete_api_key has completed, no statement of a deletion
\* outstanding and the vault without the secret, the store holds no sales
\* fact of the credential, also when a run that read the secret before the
\* deletion commits a batch after it.
C38_NoFactsAfterDeletion ==
    (del = NoDelete /\ SecretFor(SyncKey) = {}) => FactsFor(SyncKey) = {}

\* C39: in every state that add_api_key, delete_api_key and clear_all_data
\* reach, a failure or a stop between the vault step and the store step of a
\* command included, every credential with a metadata row in api_keys has its
\* secret in the vault.
C39_MetadataImpliesSecret ==
    \A id \in ApiKeyIds : InfoFor(id) # {} => SecretFor(id) # {}

\* add_api_key has failed between its two steps: the secret is in the vault
\* and the metadata row is not written, while the other credential has both.
C39_Witness ==
    /\ last.op = "add_api_key"
    /\ ~last.ok
    /\ SecretFor(last.api_key_id) # {}
    /\ InfoFor(last.api_key_id) = {}
    /\ \E id \in ApiKeyIds : InfoFor(id) # {}

\* The key file was lost and the program runs with a newly generated key,
\* while the data file written under the old key still exists.
KeyReplaced == vault.data.exists /\ vault.data.key # vault.encryption_key

\* C40: with a new key and the old data file, every get_api_key,
\* add_api_key and delete_api_key of the vault fails with a Decryption error,
\* and the data file stays as it is until delete_all_keys removes it; after
\* that removal add_api_key and get_api_key succeed again.
C40_OldFileFailsUntilCleared ==
    /\ [](KeyReplaced =>
            \A id \in ApiKeyIds :
                /\ ~storage_get_api_key(vault, id).ok
                /\ storage_get_api_key(vault, id).err = "Decryption"
                /\ ~storage_add_api_key(vault, id, CredentialSecret).ok
                /\ ~storage_delete_api_key(vault, id).ok)
    /\ [][(KeyReplaced /\ last'.op \in {"add_api_key", "get_api_key",
                                          "delete_api_key", "startup"}) =>
            vault'.data = vault.data]_vars
    /\ [][(KeyReplaced /\ last'.op = "clear_all_data" /\ last'.ok) =>
            /\ ~vault'.data.exists
            /\ \A id \in ApiKeyIds :
                    /\ storage_get_api_key(vault', id).ok
                    /\ storage_add_api_key(vault', id, CredentialSecret).ok]_vars

====
